---- MODULE Spec2Model ----
(***************************************************************************)
(* Model of the chunking, ingestion and hybrid-retrieval code of rag-cimav. *)
(*                                                                         *)
(*   tokenize_text      src/json_to_sql_converter.py   (SpecTok)           *)
(*   insert_document    src/json_to_sql_converter.py   (SpecDocs)          *)
(*   search             src/pruebas_calderon/semantic_search_sqlite.py,    *)
(*                      src/pruebas_calderon/semantic_search.py            *)
(*                                                      (SpecSearch)       *)
(*                                                                         *)
(* Strings are sequences of one-character strings.  Offsets are 0-based as *)
(* in the source: the character at offset i of s is s[i + 1].              *)
(*                                                                         *)
(* The conversion of a JSON file of analyses (convert_json_to_sql,         *)
(* src/json_to_sql_converter.py) is SpecConvert, a run of the TEI           *)
(* ingestion script (src/pruebas_calderon/from_tei_to_sqlite.py) SpecIngest,*)
(* the section classifier (categorize_section, src/xml_analyzer.py)        *)
(* SpecClass.                                                               *)
(***************************************************************************)
EXTENDS Integers, Sequences, FiniteSets, TLC

VARIABLES
    \* ---- ThesisJSONToSQLConverter.tokenize_text ----
    tpc,          \* position: "entry", "loop" (the while test), "returned"
    text,         \* the parameter / local `text` (rebound by line 211)
    chunk_size,   \* the parameter chunk_size
    overlap,      \* the parameter overlap
    chunks,       \* the local list `chunks`
    start,        \* the local cursor `start`
    chunk_index,  \* the local counter `chunk_index`
    iters,        \* number of executions of the while body so far
    traised,      \* TRUE iff the call ended with an exception
    \* ---- ThesisJSONToSQLConverter.insert_document ----
    documents,    \* the rows of table documents, in rowid order
    darg,         \* thesis_data of the last insert_document call
    dret,         \* what that call returned (NoId before any call and on a raise)
    draised,      \* TRUE iff that call raised sqlite3.IntegrityError
    \* ---- FaissSemanticSearchSQLite.search / FaissSemanticSearch.search ----
    store,        \* the rows of table chunks (the items of the JSON metadata file)
    stale,        \* vectors of the index beyond the known chunks (index.ntotal - len(store))
    spc,          \* "idle" before any search, "returned" after one
    sarg,         \* the arguments of the last search: impl, k, sections, filters
    ann,          \* what index.search returned to it: I[0] and D[0]
    requested,    \* the number of candidates it asked the index for
    index_queries,\* how many times it called index.search
    lookups,      \* how many metadata lookups it made
    results,      \* the list it returned
    \* ---- ThesisJSONToSQLConverter.convert_json_to_sql ----
    sections,                 \* the rows of table sections, in rowid order
    text_chunks,              \* the rows of table text_chunks, in rowid order
    bibliographic_references, \* the rows of table bibliographic_references
    successful_conversions,   \* the local counter of line 416
    failed_conversions,       \* the local counter of line 417
    \* ---- src/pruebas_calderon/from_tei_to_sqlite.py (one run of the script) ----
    tei_metadata,     \* the rows of table metadata of pdf_metadata.db
    tei_chunks,       \* the rows of table chunks of pdf_metadata.db
    pdf_db_id,        \* the global pdf_db_id of the last run
    inserted_chunks,  \* the global inserted_chunks of the last run
    generated_keys,   \* the chunk keys the last run generated, in order
    ingested,         \* the runs so far: source_file, TEI content and generated keys
    \* ---- GrobidXMLAnalyzer.categorize_section ----
    section_mappings, \* self.section_mappings of the analyzer
    class_log,        \* the calls so far: section_title, content and returned category
    best_match,       \* the local best_match of the last call at its return
    best_score,       \* the local best_score of the last call at its return
    \* ---- the open transaction of ThesisJSONToSQLConverter.conn ----
    uncommitted,      \* per table, how many of its last rows no commit has covered yet
    \* ---- from_sqlite_to_faiss.py and FaissSemanticSearchSQLite.__init__ ----
    faiss_index,      \* the vectors of the file faiss.index: the chunk each one embeds
    searcher,         \* the opened searcher: the index it read and its chunk_ids
    associated,       \* the pairs <<position, chunk_id>> a build or an opening made
    \* ---- two runs at once on one database ----
    runs,             \* per run: its position, its locals and its uncommitted rows
    write_lock        \* the run that holds SQLite's write lock, 0 when none does

tvars == <<tpc, text, chunk_size, overlap, chunks, start, chunk_index, iters, traised>>

dvars == <<documents, darg, dret, draised>>

svars == <<store, stale, spc, sarg, ann, requested, index_queries, lookups, results>>

cvars == <<sections, text_chunks, bibliographic_references,
           successful_conversions, failed_conversions>>

ivars == <<tei_metadata, tei_chunks, pdf_db_id, inserted_chunks, generated_keys, ingested>>

gvars == <<section_mappings, class_log, best_match, best_score>>

bvars == <<uncommitted>>

pvars == <<faiss_index, searcher, associated>>

rvars == <<runs, write_lock>>

vars == <<tvars, dvars, svars, cvars, ivars, gvars, bvars, pvars, rvars>>

\* what a step of one component leaves alone
nonTok == <<dvars, svars, cvars, ivars, gvars, bvars, pvars, rvars>>

nonDoc == <<tvars, svars, cvars, ivars, gvars, bvars, pvars, rvars>>

nonSearch == <<tvars, dvars, cvars, ivars, gvars, bvars, pvars, rvars>>

nonConv == <<tvars, svars, ivars, gvars, bvars, pvars, rvars>>

nonIngest == <<tvars, dvars, svars, cvars, gvars, bvars, pvars, rvars>>

nonClass == <<tvars, dvars, svars, cvars, ivars, bvars, pvars, rvars>>

nonBatch == <<tvars, svars, ivars, gvars, pvars, rvars>>

nonPipeline == <<tvars, dvars, svars, cvars, ivars, gvars, bvars, rvars>>

\* what two runs of from_tei_to_sqlite.py at once leave alone
nonTeiRace == <<tvars, dvars, svars, cvars, gvars, bvars, pvars,
                pdf_db_id, inserted_chunks, generated_keys, ingested>>

\* what two runs of convert_json_to_sql at once leave alone
nonConvRace == <<tvars, svars, ivars, gvars, bvars, pvars, darg, dret, draised,
                 bibliographic_references, successful_conversions, failed_conversions>>

-----------------------------------------------------------------------------
(* Bounds of the model *)

\* longest input text
MaxLen == 11
\* most characters of an input text that are not the letter "a"
MaxSpecial == 2
\* largest chunk_size argument
MaxChunk == 4
\* largest overlap argument
MaxOverlap == 2
\* number of distinct 'file' values of the analyses
MaxFiles == 2
\* number of distinct metadata titles of the analyses
MaxTitles == 2
\* most rows of table chunks
MaxStored == 3
\* largest k of a search
MaxK == 2
\* most sections of an analysis
MaxSections == 2
\* most references of an analysis
MaxRefs == 1
\* most analyses in the JSON file of one conversion
MaxConversions == 2
\* most insert_chunk calls of one run of the TEI ingestion
MaxBlocks == 2
\* most runs of the TEI ingestion
MaxRuns == 2
\* most calls of categorize_section
MaxCalls == 3
\* most insert_chunk calls of one of two runs at once
MaxRaceBlocks == 2

\* most separator characters of an input text of the boundary-snapping runs
MaxSnapSpecial == 3
\* largest chunk_size argument of the boundary-snapping runs
MaxSnapChunk == 6
\* most calls of categorize_section in the wide runs
MaxWideCalls == 1

-----------------------------------------------------------------------------
(* Generic helpers *)

Max2(a, b) == IF a >= b THEN a ELSE b

Min2(a, b) == IF a <= b THEN a ELSE b

SetMax(S) == CHOOSE x \in S : \A y \in S : y <= x

SetMin(S) == CHOOSE x \in S : \A y \in S : x <= y

-----------------------------------------------------------------------------
(* Python string primitives used by tokenize_text *)

\* the value None, kept apart from every string (no string holds this element)
None == <<"<None>">>

\* characters Python's str.strip() and the regex class \s treat as whitespace
Whitespace == {" ", "\n"}

Letters == {"a", "."}

\* `not text`: None and the empty string are falsy
Truthy(t) == t # None /\ t # <<>>

\* s[a:b] for 0 <= a; Python clamps both ends to the string
Slice(s, a, b) ==
    LET lo == Max2(a, 0)
        hi == Min2(b, Len(s))
    IN  IF lo >= hi THEN <<>> ELSE SubSeq(s, lo + 1, hi)

\* s.strip()
Strip(s) ==
    LET keep == {i \in 1..Len(s) : s[i] \notin Whitespace}
    IN  IF keep = {} THEN <<>> ELSE SubSeq(s, SetMin(keep), SetMax(keep))

\* re.sub(r'\s+', ' ', s): every maximal run of whitespace becomes one space
RECURSIVE CollapseFrom(_, _)
CollapseFrom(s, i) ==
    IF i > Len(s) THEN <<>>
    ELSE IF s[i] \notin Whitespace THEN <<s[i]>> \o CollapseFrom(s, i + 1)
    ELSE IF i > 1 /\ s[i - 1] \in Whitespace THEN CollapseFrom(s, i + 1)
    ELSE <<" ">> \o CollapseFrom(s, i + 1)

CollapseWhitespace(s) == CollapseFrom(s, 1)

\* s.rfind(sep, a, b): the highest offset i with a <= i, i + len(sep) <= b and
\* s[i:i+len(sep)] = sep; -1 when there is none
RFind(s, sep, a, b) ==
    LET hi   == Min2(b, Len(s))
        hits == {i \in Max2(a, 0)..(hi - Len(sep)) : SubSeq(s, i + 1, i + Len(sep)) = sep}
    IN  IF hits = {} THEN -1 ELSE SetMax(hits)

\* str.lower() on the characters of the model
UpperChars == <<"A", "B", "C", "D", "E", "F", "G", "H", "I", "J", "K", "L", "M", "N", "O", "P", "Q", "R", "S", "T", "U", "V", "W", "X", "Y", "Z", "Á", "É", "Í", "Ó", "Ú", "Ñ">>

LowerChars == <<"a", "b", "c", "d", "e", "f", "g", "h", "i", "j", "k", "l", "m", "n", "o", "p", "q", "r", "s", "t", "u", "v", "w", "x", "y", "z", "á", "é", "í", "ó", "ú", "ñ">>

LowerOf == [c \in {UpperChars[i] : i \in 1..Len(UpperChars)} |->
               LowerChars[CHOOSE i \in 1..Len(UpperChars) : UpperChars[i] = c]]

LowerChar(c) == IF c \in DOMAIN LowerOf THEN LowerOf[c] ELSE c

Lower(s) == [i \in 1..Len(s) |-> LowerChar(s[i])]

\* needle in hay
Contains(hay, needle) ==
    IF needle = <<>> THEN TRUE
    ELSE \E i \in 0..(Len(hay) - Len(needle)) :
             /\ hay[i + 1] = needle[1]
             /\ \A j \in 2..Len(needle) : hay[i + j] = needle[j]

-----------------------------------------------------------------------------
(* tokenize_text, src/json_to_sql_converter.py:195-247 *)

\* len(text.strip()) < 10
MinViableLen == 10

\* line 224 with the plain space tried first
SeparatorsSpaceFirst == << <<" ">>, <<"\n">>, <<".", " ">> >>

\* the separators of line 224, in the order they are tried
Separators == << <<".", " ">>, <<"\n">>, <<" ">> >>

\* line 207 with `text.strip()` evaluated before `not text`
EntryOutcomeStripFirst(t) ==
    IF t = None THEN "raise"
    ELSE IF Len(Strip(t)) < MinViableLen \/ ~Truthy(t) THEN "empty"
    ELSE "proceed"

\* line 207 with len(text) in place of len(text.strip())
EntryOutcomeNoStrip(t) ==
    IF ~Truthy(t) THEN "empty"
    ELSE IF Len(t) < MinViableLen THEN "empty"
    ELSE "proceed"

\* line 207: `if not text or len(text.strip()) < 10: return []`
EntryOutcome(t) ==
    IF ~Truthy(t) THEN "empty"
    ELSE IF Len(Strip(t)) < MinViableLen THEN "empty"
    ELSE "proceed"

\* line 211: text = re.sub(r'\s+', ' ', text.strip())
NormalizeText(t) == CollapseWhitespace(Strip(t))

\* lines 224-228: the first separator, in order, whose last occurrence in
\* [st, en) lies strictly after st moves the end to just behind it
RECURSIVE SnapFrom(_, _, _, _)
SnapFrom(t, st, en, k) ==
    IF k > Len(Separators) THEN en
    ELSE LET last_sep == RFind(t, Separators[k], st, en)
         IN  IF last_sep > st THEN last_sep + Len(Separators[k])
             ELSE SnapFrom(t, st, en, k + 1)

\* lines 219-228: the end of the chunk that starts at st
ChunkEnd(t, st, cs) ==
    LET en == st + cs
    IN  IF en < Len(t) THEN SnapFrom(t, st, en, 1) ELSE en

\* line 245 without the max(start + 1, ...) guard
NextStartNoGuard(st, en, ov) == en - ov

\* line 245 with the overlap added instead of subtracted
NextStartSkip(st, en, ov) == Max2(st + 1, en + ov)

\* line 245: start = max(start + 1, end - overlap)
NextStart(st, en, ov) == Max2(st + 1, en - ov)

\* lines 233-241 without the max(0, ...) and min(len(text), ...) of lines 239-240
MakeChunkUnclamped(t, chunk_text, idx, st, en, ov) ==
    [ text          |-> chunk_text,
      size          |-> Len(chunk_text),
      index         |-> idx,
      start_pos     |-> st,
      end_pos       |-> en,
      overlap_start |-> IF idx > 0 THEN st - ov ELSE 0,
      overlap_end   |-> en + ov ]

\* lines 233-241: the chunk record
MakeChunk(t, chunk_text, idx, st, en, ov) ==
    [ text          |-> chunk_text,
      size          |-> Len(chunk_text),
      index         |-> idx,
      start_pos     |-> st,
      end_pos       |-> en,
      overlap_start |-> IF idx > 0 THEN Max2(0, st - ov) ELSE 0,
      overlap_end   |-> Min2(Len(t), en + ov) ]

\* the input texts: every string of at most MaxLen characters over
\* Letters \cup Whitespace with at most MaxSpecial characters other than "a"
Specials == (Letters \cup Whitespace) \ {"a"}

TextsOfLen(n) ==
    UNION { { [i \in 1..n |-> IF i \in S THEN f[i] ELSE "a"] : f \in [S -> Specials] }
            : S \in {S \in SUBSET (1..n) : Cardinality(S) <= MaxSpecial} }

InputTexts == UNION { TextsOfLen(n) : n \in 0..MaxLen } \cup {None}

TokInit ==
    /\ tpc = "entry"
    /\ text \in InputTexts
    /\ chunk_size = 0
    /\ overlap = 0
    /\ chunks = <<>>
    /\ start = 0
    /\ chunk_index = 0
    /\ iters = 0
    /\ traised = FALSE

\* the state of tokenize_text while another component is exercised
TokIdle ==
    /\ tpc = "entry"
    /\ text = <<>>
    /\ chunk_size = 0
    /\ overlap = 0
    /\ chunks = <<>>
    /\ start = 0
    /\ chunk_index = 0
    /\ iters = 0
    /\ traised = FALSE

\* lines 195 and 207-215: the call tokenize_text(text, cs, ov), its guard, the
\* normalization and the loop's initial values
TokEntry(cs, ov) ==
    /\ tpc = "entry"
    /\ chunk_size' = cs
    /\ overlap' = ov
    /\ LET outcome == EntryOutcome(text)
       IN  /\ tpc' = IF outcome = "proceed" THEN "loop" ELSE "returned"
           /\ traised' = (outcome = "raise")
           /\ text' = IF outcome = "proceed" THEN NormalizeText(text) ELSE text
    /\ chunks' = <<>>
    /\ start' = 0
    /\ chunk_index' = 0
    /\ UNCHANGED <<iters, nonTok>>

\* lines 217-245: one execution of the while body
TokLoopStep ==
    /\ tpc = "loop"
    /\ start < Len(text)
    /\ LET end        == ChunkEnd(text, start, chunk_size)
           chunk_text == Strip(Slice(text, start, end))
       IN  /\ IF chunk_text # <<>>
              THEN /\ chunks' = Append(chunks,
                                   MakeChunk(text, chunk_text, chunk_index, start, end, overlap))
                   /\ chunk_index' = chunk_index + 1
              ELSE UNCHANGED <<chunks, chunk_index>>
           /\ start' = NextStart(start, end, overlap)
    /\ iters' = iters + 1
    /\ UNCHANGED <<tpc, text, chunk_size, overlap, traised, nonTok>>

\* lines 217 and 247: the while test fails and chunks is returned
TokReturn ==
    /\ tpc = "loop"
    /\ start >= Len(text)
    /\ tpc' = "returned"
    /\ UNCHANGED <<text, chunk_size, overlap, chunks, start, chunk_index, iters, traised, nonTok>>

TokCall == \E cs \in 0..MaxChunk, ov \in 0..MaxOverlap : TokEntry(cs, ov)

TokNext == TokCall \/ TokLoopStep \/ TokReturn

\* the input texts of the boundary-snapping runs: the strings of MinViableLen
\* characters over "a", "." and " " with at most MaxSnapSpecial characters
\* other than "a", so that a sentence end and a later space fit in one chunk
SnapSpecials == {".", " "}

SnapTexts ==
    UNION { { [i \in 1..MinViableLen |-> IF i \in S THEN f[i] ELSE "a"] : f \in [S -> SnapSpecials] }
            : S \in {S \in SUBSET (1..MinViableLen) : Cardinality(S) <= MaxSnapSpecial} }

TokInitSnap ==
    /\ tpc = "entry"
    /\ text \in SnapTexts
    /\ chunk_size = 0
    /\ overlap = 0
    /\ chunks = <<>>
    /\ start = 0
    /\ chunk_index = 0
    /\ iters = 0
    /\ traised = FALSE

TokCallSnap == \E cs \in 1..MaxSnapChunk, ov \in 0..MaxOverlap : TokEntry(cs, ov)

SnapNext == TokCallSnap \/ TokLoopStep \/ TokReturn


-----------------------------------------------------------------------------
(* insert_document, src/json_to_sql_converter.py:253-300 *)

\* thesis_data.get('file', 'unknown') when the key is missing
UnknownFile == <<"unknown", 0>>

FileNames == { <<"file", i>> : i \in 1..MaxFiles }

Titles == { <<"title", i>> : i \in 1..MaxTitles }

\* no 'file' key
NoFile == <<"nofile", 0>>

\* the analyses handed to insert_document: a 'file' key (or none) and a title
ThesisData == [file : FileNames \cup {NoFile}, title : Titles]

\* no row / no identifier
NoId == 0

\* calculate_file_hash: hashlib.md5(str(content).encode()).hexdigest(); the
\* digest is a function of the whole rendering str(thesis_data), and distinct
\* renderings of the model have distinct digests
calculate_file_hash(content) == <<"md5", content>>

\* thesis_data.get('file', 'unknown')
FileOf(d) == IF d.file = NoFile THEN UnknownFile ELSE d.file

\* lines 273-274 with the lookup never finding a row
FindByHashNever(docs, h) == NoId

\* lines 273-274: SELECT id FROM documents WHERE file_hash = ? ; fetchone()
FindByHash(docs, h) ==
    LET hits == {i \in 1..Len(docs) : docs[i].file_hash = h}
    IN  IF hits = {} THEN NoId ELSE docs[SetMin(hits)].id

\* filename TEXT UNIQUE NOT NULL (lines 41-45 of the CREATE TABLE statement)
FilenameTaken(docs, f) == \E i \in 1..Len(docs) : docs[i].filename = f

\* id INTEGER PRIMARY KEY AUTOINCREMENT; no row is ever deleted
NextRowId(docs) == Len(docs) + 1

DocIdle ==
    /\ documents = <<>>
    /\ darg = [file |-> NoFile, title |-> <<"title", 1>>]
    /\ dret = NoId
    /\ draised = FALSE

\* lines 253-300: the table, the returned id and whether the call raised, for
\* insert_document(thesis_data) on the table docs
InsertDocumentResult(docs, thesis_data) ==
    LET file_hash == calculate_file_hash(thesis_data)
        existing  == FindByHash(docs, file_hash)
        filename  == FileOf(thesis_data)
    IN  IF existing # NoId
        THEN \* lines 275-277
             [documents |-> docs, ret |-> existing, raised |-> FALSE]
        ELSE IF FilenameTaken(docs, filename)
        THEN \* line 280: the INSERT violates UNIQUE(filename)
             [documents |-> docs, ret |-> NoId, raised |-> TRUE]
        ELSE \* lines 280-300
             [ documents |-> Append(docs, [ id        |-> NextRowId(docs),
                                            filename  |-> filename,
                                            title     |-> thesis_data.title,
                                            file_hash |-> file_hash ]),
               ret       |-> NextRowId(docs),
               raised    |-> FALSE ]

\* lines 253-300: one call insert_document(thesis_data)
InsertDocument(thesis_data) ==
    LET r == InsertDocumentResult(documents, thesis_data)
    IN  /\ darg' = thesis_data
        /\ documents' = r.documents
        /\ dret' = r.ret
        /\ draised' = r.raised
        /\ UNCHANGED nonDoc

DocCall == \E d \in ThesisData : InsertDocument(d)

DocNext == DocCall

-----------------------------------------------------------------------------
(* convert_json_to_sql, insert_sections_and_chunks and insert_references,     *)
(* src/json_to_sql_converter.py:302-445                                       *)

\* tokenize_text(self, text, chunk_size=512, overlap=50)
DefaultChunkSize == 512

DefaultOverlap == 50

\* lines 217-247 as a function: the chunks collected from cursor st on
RECURSIVE TokenizeFrom(_, _, _, _, _, _)
TokenizeFrom(t, cs, ov, st, idx, acc) ==
    IF st >= Len(t) THEN acc
    ELSE LET end        == ChunkEnd(t, st, cs)
             chunk_text == Strip(Slice(t, st, end))
         IN  IF chunk_text # <<>>
             THEN TokenizeFrom(t, cs, ov, NextStart(st, end, ov), idx + 1,
                               Append(acc, MakeChunk(t, chunk_text, idx, st, end, ov)))
             ELSE TokenizeFrom(t, cs, ov, NextStart(st, end, ov), idx, acc)

\* tokenize_text(text, cs, ov) for a string text (lines 207-247)
TokenizeText(t, cs, ov) ==
    IF EntryOutcome(t) # "proceed" THEN <<>>
    ELSE TokenizeFrom(NormalizeText(t), cs, ov, 0, 0, <<>>)

\* section.get('content', ''): a text that yields one chunk and one too short
\* to yield any
LongContent == <<"a", "a", "a", "a", " ", "a", "a", "a", "a", " ", "a", ".">>

ShortContent == <<"a", "a", ".">>

\* the content of the i-th section of an analysis
SectionContent(i) == IF i % 2 = 1 THEN LongContent ELSE ShortContent

\* the analyses of the JSON file: status, 'file' key (or none), title, the
\* number of sections and the number of references
ConvAnalyses ==
    [ file       : {<<"file", 1>>, NoFile},
      title      : {<<"title", 1>>},
      status     : {"success", "error"},
      nsections  : 0..MaxSections,
      references : 0..MaxRefs ]

\* lines 314-364: the rows of sections and text_chunks after the loop over the
\* sections i..n of the analysis
RECURSIVE InsertSectionsFrom(_, _, _, _, _)
InsertSectionsFrom(secs, chks, document_id, i, n) ==
    IF i > n THEN [sections |-> secs, text_chunks |-> chks]
    ELSE LET section_content == SectionContent(i)
             section_id      == Len(secs) + 1
             cks             == TokenizeText(section_content, DefaultChunkSize, DefaultOverlap)
             secs2 == Append(secs, [ id            |-> section_id,
                                     document_id   |-> document_id,
                                     content       |-> section_content,
                                     chunk_index   |-> 0 ])
             chks2 == chks \o [j \in 1..Len(cks) |->
                                  [ document_id |-> document_id,
                                    section_id  |-> section_id,
                                    chunk_text  |-> cks[j].text,
                                    chunk_index |-> cks[j].index ]]
         IN  InsertSectionsFrom(secs2, chks2, document_id, i + 1, n)

\* lines 380-391: the rows insert_references adds
ReferenceRows(document_id, n) ==
    [i \in 1..n |-> [document_id |-> document_id, ref_index |-> i - 1]]

\* the state before any conversion: empty tables (lines 31-188)
ConvIdle ==
    /\ sections = <<>>
    /\ text_chunks = <<>>
    /\ bibliographic_references = <<>>
    /\ successful_conversions = 0
    /\ failed_conversions = 0

\* lines 419-440: one iteration of the loop over the analyses of the file
ConvertAnalysis(thesis_data) ==
    /\ successful_conversions + failed_conversions < MaxConversions
    /\ IF thesis_data.status # "success"
       THEN \* lines 420-423
            /\ failed_conversions' = failed_conversions + 1
            /\ UNCHANGED <<dvars, sections, text_chunks, bibliographic_references,
                           successful_conversions>>
       ELSE LET r == InsertDocumentResult(documents, thesis_data)
            IN  /\ darg' = thesis_data
                /\ documents' = r.documents
                /\ dret' = r.ret
                /\ draised' = r.raised
                /\ IF r.raised
                   THEN \* lines 438-440
                        /\ failed_conversions' = failed_conversions + 1
                        /\ UNCHANGED <<sections, text_chunks, bibliographic_references,
                                       successful_conversions>>
                   ELSE \* lines 430-436
                        LET out == InsertSectionsFrom(sections, text_chunks, r.ret, 1,
                                                      thesis_data.nsections)
                        IN  /\ sections' = out.sections
                            /\ text_chunks' = out.text_chunks
                            /\ bibliographic_references' =
                                   bibliographic_references
                                       \o ReferenceRows(r.ret, thesis_data.references)
                            /\ successful_conversions' = successful_conversions + 1
                            /\ UNCHANGED failed_conversions
    /\ UNCHANGED nonConv

ConvertCall == \E d \in ConvAnalyses : ConvertAnalysis(d)

ConvNext == ConvertCall

-----------------------------------------------------------------------------
(* convert_json_to_sql on a batch with entries that raise after               *)
(* insert_document returned, and the transaction of self.conn,                *)
(* src/json_to_sql_converter.py:253-440                                       *)

\* the entries of the batch: an analysis, the index of the section whose
\* 'content' is null and the index of the reference that is not a dict (0:
\* none, else the last one); an analysis that failed carries no sections or
\* references
BatchEntries ==
    { d \in [ file          : {<<"file", 1>>, NoFile},
              title         : {<<"title", 1>>},
              status        : {"success", "error"},
              nsections     : 0..MaxSections,
              references    : 0..MaxRefs,
              bad_section   : 0..MaxSections,
              bad_reference : 0..MaxRefs ] :
          /\ d.bad_section \in {0, d.nsections}
          /\ d.bad_reference \in {0, d.references}
          /\ d.status = "error" => d.nsections = 0 /\ d.references = 0 }

\* the rows of a table that a commit of self.conn has covered
Committed(table, pending) == SubSeq(table, 1, Len(table) - pending)

\* no row of the three tables awaits a commit
NothingPending == [sections |-> 0, text_chunks |-> 0, bibliographic_references |-> 0]

\* lines 302-367: insert_sections_and_chunks(document_id, thesis_data) on the
\* rows secs, chks of which pend.* await a commit; estimate_tokens(None)
\* raises at line 317 before the INSERT of the section with null content
InsertSectionsAndChunks(secs, chks, pend, document_id, thesis_data) ==
    IF thesis_data.bad_section = 0
    THEN LET out == InsertSectionsFrom(secs, chks, document_id, 1, thesis_data.nsections)
         IN  \* line 366: self.conn.commit()
             [ sections |-> out.sections, text_chunks |-> out.text_chunks,
               pending |-> NothingPending, raised |-> FALSE ]
    ELSE LET out == InsertSectionsFrom(secs, chks, document_id, 1,
                                       thesis_data.bad_section - 1)
         IN  [ sections |-> out.sections, text_chunks |-> out.text_chunks,
               pending |-> [ pend EXCEPT
                   !.sections = @ + (Len(out.sections) - Len(secs)),
                   !.text_chunks = @ + (Len(out.text_chunks) - Len(chks)) ],
               raised |-> TRUE ]

\* lines 369-394: insert_references(document_id, thesis_data) on the rows refs;
\* ref.get raises at line 386 for a reference that is not a dict
InsertReferences(refs, pend, document_id, thesis_data) ==
    IF thesis_data.bad_reference = 0
    THEN \* line 393: self.conn.commit()
         [ bibliographic_references |-> refs \o ReferenceRows(document_id,
                                                              thesis_data.references),
           pending |-> NothingPending, raised |-> FALSE ]
    ELSE [ bibliographic_references |-> refs \o ReferenceRows(document_id,
                                                    thesis_data.bad_reference - 1),
           pending |-> [ pend EXCEPT
               !.bibliographic_references = @ + (thesis_data.bad_reference - 1) ],
           raised |-> TRUE ]

\* lines 419-440: one iteration of the loop over the entries of the batch
ConvertEntry(thesis_data) ==
    /\ successful_conversions + failed_conversions < MaxConversions
    /\ IF thesis_data.status # "success"
       THEN \* lines 420-423
            /\ failed_conversions' = failed_conversions + 1
            /\ UNCHANGED <<dvars, sections, text_chunks, bibliographic_references,
                           successful_conversions, uncommitted>>
       ELSE LET r == InsertDocumentResult(documents, thesis_data)
                \* line 296 commits when insert_document inserted a row
                pend0 == IF r.documents # documents THEN NothingPending
                         ELSE uncommitted
            IN  /\ darg' = thesis_data
                /\ documents' = r.documents
                /\ dret' = r.ret
                /\ draised' = r.raised
                /\ IF r.raised
                   THEN \* lines 438-440
                        /\ failed_conversions' = failed_conversions + 1
                        /\ UNCHANGED <<sections, text_chunks, bibliographic_references,
                                       successful_conversions, uncommitted>>
                   ELSE LET s == InsertSectionsAndChunks(sections, text_chunks, pend0,
                                                         r.ret, thesis_data)
                        IN  /\ sections' = s.sections
                            /\ text_chunks' = s.text_chunks
                            /\ IF s.raised
                               THEN \* lines 438-440
                                    /\ uncommitted' = s.pending
                                    /\ failed_conversions' = failed_conversions + 1
                                    /\ UNCHANGED <<bibliographic_references,
                                                   successful_conversions>>
                               ELSE LET f == InsertReferences(bibliographic_references,
                                                   s.pending, r.ret, thesis_data)
                                    IN  /\ bibliographic_references'
                                               = f.bibliographic_references
                                        /\ uncommitted' = f.pending
                                        /\ IF f.raised
                                           THEN \* lines 438-440
                                                /\ failed_conversions'
                                                       = failed_conversions + 1
                                                /\ UNCHANGED successful_conversions
                                           ELSE \* lines 435-436
                                                /\ successful_conversions'
                                                       = successful_conversions + 1
                                                /\ UNCHANGED failed_conversions
    /\ UNCHANGED nonBatch

BatchCall == \E d \in BatchEntries : ConvertEntry(d)

BatchNext == BatchCall

-----------------------------------------------------------------------------
(* The TEI ingestion script, src/pruebas_calderon/from_tei_to_sqlite.py *)

\* chunk_key = f"{pdf_db_id:03}_chunk_{chunk_id:04}" (line 157)
ChunkKey(pdf, n) == <<pdf, "chunk", n>>

\* source_file = f"{fn}.pdf" (line 12) for the values of fn
SourceFiles == {"a.pdf", "b.pdf"}

\* the text handed to insert_chunk: empty (Not_found, line 64) or with content
\* between blanks
BlockTexts == {<<>>, <<" ", "t", " ">>}

\* what the script reads from the TEI file: the texts of its insert_chunk
\* calls (lines 168-184), in order
TeiContents == UNION { [1..n -> BlockTexts] : n \in 0..MaxBlocks }

\* the section handed to the i-th insert_chunk call
BlockSection(i) == IF i % 2 = 1 THEN "Abstract" ELSE "Methods"

\* lines 99-100: SELECT pdf_id FROM metadata WHERE source_file = ? ; fetchone()
FindPdfId(meta, source_file) ==
    LET hits == {i \in 1..Len(meta) : meta[i].source_file = source_file}
    IN  IF hits = {} THEN NoId ELSE meta[SetMin(hits)].pdf_id

\* lines 158-159 with the lookup never finding the key
ChunkExistsNever(rows, chunk_key) == FALSE

\* lines 158-159: SELECT 1 FROM chunks WHERE chunk_id = ? ; fetchone()
ChunkExists(rows, chunk_key) == \E i \in 1..Len(rows) : rows[i].chunk_id = chunk_key

\* lines 154-165 over the calls i..Len(tei): the table, the counter chunk_id,
\* the counter inserted_chunks and the keys generated
RECURSIVE InsertChunksFrom(_, _, _, _, _, _, _)
InsertChunksFrom(rows, tei, i, pdf, chunk_id, inserted, keys) ==
    IF i > Len(tei)
    THEN [chunks |-> rows, inserted_chunks |-> inserted, keys |-> keys]
    ELSE IF Truthy(tei[i]) /\ Truthy(Strip(tei[i]))
    THEN LET chunk_key == ChunkKey(pdf, chunk_id)
         IN  IF ~ChunkExists(rows, chunk_key)
             THEN InsertChunksFrom(Append(rows, [ chunk_id |-> chunk_key,
                                                  pdf_id   |-> pdf,
                                                  section  |-> BlockSection(i),
                                                  text     |-> Strip(tei[i]) ]),
                                   tei, i + 1, pdf, chunk_id + 1, inserted + 1,
                                   Append(keys, chunk_key))
             ELSE InsertChunksFrom(rows, tei, i + 1, pdf, chunk_id + 1, inserted,
                                   Append(keys, chunk_key))
    ELSE InsertChunksFrom(rows, tei, i + 1, pdf, chunk_id, inserted, keys)

\* the database before any run (the tables of lines 25-59, empty)
IngestIdle ==
    /\ tei_metadata = <<>>
    /\ tei_chunks = <<>>
    /\ pdf_db_id = NoId
    /\ inserted_chunks = 0
    /\ generated_keys = <<>>
    /\ ingested = {}

\* one run of the script for source_file and the TEI content tei (lines 61-189)
RunIngestion(source_file, tei) ==
    /\ Cardinality(ingested) < MaxRuns
    /\ LET row  == FindPdfId(tei_metadata, source_file)
           pdf  == IF row # NoId THEN row ELSE Len(tei_metadata) + 1
           meta == IF row # NoId THEN tei_metadata
                   ELSE Append(tei_metadata, [pdf_id |-> pdf, source_file |-> source_file])
           out  == InsertChunksFrom(tei_chunks, tei, 1, pdf, 0, 0, <<>>)
       IN  /\ tei_metadata' = meta
           /\ pdf_db_id' = pdf
           /\ tei_chunks' = out.chunks
           /\ inserted_chunks' = out.inserted_chunks
           /\ generated_keys' = out.keys
           /\ ingested' = ingested \cup
                  {[source_file |-> source_file, tei |-> tei, keys |-> out.keys]}
    /\ UNCHANGED nonIngest

IngestRun == \E f \in SourceFiles, tei \in TeiContents : RunIngestion(f, tei)

IngestNext == IngestRun

-----------------------------------------------------------------------------
(* The index build, src/pruebas_calderon/from_sqlite_to_faiss.py:13-40, and   *)
(* the opening of the searcher,                                               *)
(* src/pruebas_calderon/semantic_search_sqlite.py:7-19.  A vector is kept as  *)
(* the chunk id and the text of the row it embeds.                            *)

\* WHERE ... LENGTH(text) > 20
MinIndexedLen == 20

\* a chunk text the build indexes and one it leaves out
IndexedText == [i \in 1..(MinIndexedLen + 1) |-> "t"]

SkippedText == <<"t", "t">>

\* what the script reads from the TEI file: the texts of its insert_chunk
\* calls, in order
PipelineContents == UNION { [1..n -> {IndexedText, SkippedText}] : n \in 1..MaxBlocks }

\* lines 17-21 without the test LENGTH(text) > 20
BuildRowsUnfiltered(rows) == SelectSeq(rows, LAMBDA r : r.text # None)

\* lines 17-21: SELECT chunk_id, text FROM chunks WHERE text IS NOT NULL AND
\* LENGTH(text) > 20 ; fetchall(): a scan of the table in rowid order
BuildRows(rows) ==
    SelectSeq(rows, LAMBDA r : r.text # None /\ Len(r.text) > MinIndexedLen)

\* _load_chunk_ids (lines 16-19 of semantic_search_sqlite.py): SELECT chunk_id
\* FROM chunks WHERE text IS NOT NULL AND LENGTH(text) > 20, in rowid order
LoadChunkIdsOf(rows) ==
    LET kept == SelectSeq(rows, LAMBDA r : r.text # None /\ Len(r.text) > MinIndexedLen)
    IN  [i \in 1..Len(kept) |-> kept[i].chunk_id]

\* one run of from_tei_to_sqlite.py
PipelineIngest == \E f \in SourceFiles, tei \in PipelineContents : RunIngestion(f, tei)

\* one run of from_sqlite_to_faiss.py; with no row to index, embeddings has
\* one dimension, line 35 raises and faiss.index is not written
PipelineBuild ==
    /\ LET rows == BuildRows(tei_chunks)
       IN  IF rows = <<>>
           THEN UNCHANGED <<faiss_index, associated>>
           ELSE \* lines 27-40: position i holds the embedding of texts[i]
                /\ faiss_index' =
                       [ exists  |-> TRUE,
                         vectors |-> [i \in 1..Len(rows) |->
                                         [chunk_id |-> rows[i].chunk_id,
                                          text     |-> rows[i].text]] ]
                /\ associated' = associated \cup
                       { <<i - 1, rows[i].chunk_id>> : i \in 1..Len(rows) }
    /\ UNCHANGED <<searcher, rvars>>
    /\ UNCHANGED <<tvars, dvars, svars, cvars, ivars, gvars, bvars>>

\* the positions idx that search resolves: those FAISS returns, below
\* index.ntotal, that pass the test of line 27
Resolved(index, chunk_ids) ==
    { idx \in 0..(Len(index) - 1) : ~(idx < 0 \/ idx >= Len(chunk_ids)) }

\* FaissSemanticSearchSQLite(db_path, faiss_index_path) (lines 7-14);
\* faiss.read_index raises when faiss.index does not exist
PipelineOpen ==
    /\ faiss_index.exists
    /\ LET chunk_ids == LoadChunkIdsOf(tei_chunks)
       IN  /\ searcher' = [ opened    |-> TRUE,
                            index     |-> faiss_index.vectors,
                            chunk_ids |-> chunk_ids ]
           /\ associated' = associated \cup
                  { <<idx, chunk_ids[idx + 1]>> :
                        idx \in Resolved(faiss_index.vectors, chunk_ids) }
    /\ UNCHANGED <<faiss_index, rvars>>
    /\ UNCHANGED <<tvars, dvars, svars, cvars, ivars, gvars, bvars>>

PipelineNext == PipelineIngest \/ PipelineBuild \/ PipelineOpen

-----------------------------------------------------------------------------
(* Two runs at once on one database: two runs of from_tei_to_sqlite.py        *)
(* (lines 98-187) or two of convert_json_to_sql                               *)
(* (src/json_to_sql_converter.py:253-440), one statement per step.  SQLite    *)
(* lets one connection write at a time: the first INSERT of a transaction     *)
(* takes the write lock, which the commit or the end of the process releases; *)
(* a connection that finds it taken waits, and raises OperationalError when   *)
(* its timeout passes.  A connection sees the committed rows and its own.     *)

\* the write lock is free, or run r holds it
CanWrite(r) == write_lock \in {0, r}

\* source_file TEXT UNIQUE (line 28) with the constraint missing
SourceFileTakenNever(meta, source_file) == FALSE

\* source_file TEXT UNIQUE (line 28 of from_tei_to_sqlite.py)
SourceFileTaken(meta, source_file) ==
    \E i \in 1..Len(meta) : meta[i].source_file = source_file

\* a run of from_tei_to_sqlite.py at line 98: its source_file, the number of
\* its insert_chunk calls with a text, its locals and its uncommitted rows
TeiRun(f, n) ==
    [ kind |-> "tei", source_file |-> f, nblocks |-> n, pc |-> "select_pdf",
      pdf_db_id |-> NoId, chunk_id |-> 0, metadata |-> <<>>, chunks |-> <<>> ]

\* the text of every insert_chunk call of the two runs
RaceText == <<" ", "t", " ">>

\* after the insert_chunk call that left the counter at k: the next call, or
\* the commit of line 187
AfterBlock(run, k) == IF k >= run.nblocks THEN "commit" ELSE "select_chunk"

\* lines 99-104: SELECT pdf_id FROM metadata WHERE source_file = ?
TeiSelectPdf(r) ==
    /\ runs[r].kind = "tei"
    /\ runs[r].pc = "select_pdf"
    /\ LET row == FindPdfId(tei_metadata, runs[r].source_file)
       IN  runs' = [runs EXCEPT ![r].pdf_db_id = row,
                                ![r].pc = IF row # NoId THEN "select_chunk"
                                          ELSE "insert_metadata"]
    /\ UNCHANGED <<write_lock, tei_metadata, tei_chunks>>
    /\ UNCHANGED nonTeiRace

\* lines 106-117: INSERT INTO metadata ; pdf_db_id = cur.lastrowid.  The
\* IntegrityError of a taken source_file ends the script
TeiInsertMetadata(r) ==
    /\ runs[r].kind = "tei"
    /\ runs[r].pc = "insert_metadata"
    /\ CanWrite(r)
    /\ IF SourceFileTaken(tei_metadata, runs[r].source_file)
       THEN /\ runs' = [runs EXCEPT ![r].pc = "IntegrityError"]
            /\ write_lock' = 0
       ELSE LET pdf == Len(tei_metadata) + 1
            IN  /\ runs' = [runs EXCEPT
                       ![r].metadata = <<[pdf_id |-> pdf,
                                          source_file |-> runs[r].source_file]>>,
                       ![r].pdf_db_id = pdf,
                       ![r].pc = "select_chunk"]
                /\ write_lock' = r
    /\ UNCHANGED <<tei_metadata, tei_chunks>>
    /\ UNCHANGED nonTeiRace

\* lines 156-159 and 165: the key and SELECT 1 FROM chunks WHERE chunk_id = ?
TeiSelectChunk(r) ==
    /\ runs[r].kind = "tei"
    /\ runs[r].pc = "select_chunk"
    /\ LET chunk_key == ChunkKey(runs[r].pdf_db_id, runs[r].chunk_id)
       IN  IF ChunkExists(tei_chunks \o runs[r].chunks, chunk_key)
           THEN runs' = [runs EXCEPT ![r].chunk_id = @ + 1,
                                     ![r].pc = AfterBlock(runs[r], runs[r].chunk_id + 1)]
           ELSE runs' = [runs EXCEPT ![r].pc = "insert_chunk"]
    /\ UNCHANGED <<write_lock, tei_metadata, tei_chunks>>
    /\ UNCHANGED nonTeiRace

\* lines 160-165: INSERT INTO chunks ; chunk_id TEXT PRIMARY KEY (line 51).
\* The IntegrityError of a taken key ends the script, and the rows it had
\* inserted are rolled back
TeiInsertChunk(r) ==
    /\ runs[r].kind = "tei"
    /\ runs[r].pc = "insert_chunk"
    /\ CanWrite(r)
    /\ LET chunk_key == ChunkKey(runs[r].pdf_db_id, runs[r].chunk_id)
       IN  IF ChunkExists(tei_chunks \o runs[r].chunks, chunk_key)
           THEN /\ runs' = [runs EXCEPT ![r].pc = "IntegrityError",
                                        ![r].metadata = <<>>,
                                        ![r].chunks = <<>>]
                /\ write_lock' = 0
           ELSE /\ runs' = [runs EXCEPT
                       ![r].chunks = Append(@, [ chunk_id |-> chunk_key,
                                                 pdf_id   |-> runs[r].pdf_db_id,
                                                 section  |-> BlockSection(runs[r].chunk_id + 1),
                                                 text     |-> Strip(RaceText) ]),
                       ![r].chunk_id = @ + 1,
                       ![r].pc = AfterBlock(runs[r], runs[r].chunk_id + 1)]
                /\ write_lock' = r
    /\ UNCHANGED <<tei_metadata, tei_chunks>>
    /\ UNCHANGED nonTeiRace

\* line 187: conn.commit()
TeiCommit(r) ==
    /\ runs[r].kind = "tei"
    /\ runs[r].pc = "commit"
    /\ tei_metadata' = tei_metadata \o runs[r].metadata
    /\ tei_chunks' = tei_chunks \o runs[r].chunks
    /\ runs' = [runs EXCEPT ![r].pc = "done", ![r].metadata = <<>>, ![r].chunks = <<>>]
    /\ write_lock' = IF write_lock = r THEN 0 ELSE write_lock
    /\ UNCHANGED nonTeiRace

\* an INSERT of lines 106 or 161 that waited for the write lock until the
\* timeout: OperationalError ends the script
TeiLocked(r) ==
    /\ runs[r].kind = "tei"
    /\ runs[r].pc \in {"insert_metadata", "insert_chunk"}
    /\ ~CanWrite(r)
    /\ runs' = [runs EXCEPT ![r].pc = "OperationalError"]
    /\ UNCHANGED <<write_lock, tei_metadata, tei_chunks>>
    /\ UNCHANGED nonTeiRace

\* the analyses of the two conversions: a 'file' key (or none) and a title,
\* one section and no reference
RaceAnalyses == [file : {<<"file", 1>>, NoFile}, title : {<<"title", 1>>, <<"title", 2>>}]

\* a run of convert_json_to_sql on a file of one analysis, at line 269
ConvRun(d) ==
    [ kind |-> "convert", thesis_data |-> d, pc |-> "select_hash",
      document_id |-> NoId, documents |-> <<>>, sections |-> <<>>,
      text_chunks |-> <<>> ]

\* lines 269-277: SELECT id FROM documents WHERE file_hash = ?
ConvSelectHash(r) ==
    /\ runs[r].kind = "convert"
    /\ runs[r].pc = "select_hash"
    /\ LET existing == FindByHash(documents, calculate_file_hash(runs[r].thesis_data))
       IN  runs' = [runs EXCEPT ![r].document_id = existing,
                                ![r].pc = IF existing # NoId THEN "insert_sections"
                                          ELSE "insert_document"]
    /\ UNCHANGED <<write_lock, documents, sections, text_chunks>>
    /\ UNCHANGED nonConvRace

\* lines 279-295: INSERT INTO documents ; document_id = cursor.lastrowid.  The
\* IntegrityError of a taken filename is caught at line 438 and the run ends
ConvInsertDocument(r) ==
    /\ runs[r].kind = "convert"
    /\ runs[r].pc = "insert_document"
    /\ CanWrite(r)
    /\ LET d == runs[r].thesis_data
       IN  IF FilenameTaken(documents, FileOf(d))
           THEN /\ runs' = [runs EXCEPT ![r].pc = "IntegrityError"]
                /\ write_lock' = 0
           ELSE /\ runs' = [runs EXCEPT
                       ![r].documents = <<[ id        |-> NextRowId(documents),
                                            filename  |-> FileOf(d),
                                            title     |-> d.title,
                                            file_hash |-> calculate_file_hash(d) ]>>,
                       ![r].document_id = NextRowId(documents),
                       ![r].pc = "commit_document"]
                /\ write_lock' = r
    /\ UNCHANGED <<documents, sections, text_chunks>>
    /\ UNCHANGED nonConvRace

\* line 296: self.conn.commit()
ConvCommitDocument(r) ==
    /\ runs[r].kind = "convert"
    /\ runs[r].pc = "commit_document"
    /\ documents' = documents \o runs[r].documents
    /\ runs' = [runs EXCEPT ![r].documents = <<>>, ![r].pc = "insert_sections"]
    /\ write_lock' = 0
    /\ UNCHANGED <<sections, text_chunks>>
    /\ UNCHANGED nonConvRace

\* lines 314-364: the INSERTs of insert_sections_and_chunks for the one section
\* of the analysis; id INTEGER PRIMARY KEY AUTOINCREMENT of text_chunks
ConvInsertSections(r) ==
    /\ runs[r].kind = "convert"
    /\ runs[r].pc = "insert_sections"
    /\ CanWrite(r)
    /\ LET out == InsertSectionsFrom(sections, <<>>, runs[r].document_id, 1, 1)
       IN  runs' = [runs EXCEPT
               ![r].sections = SubSeq(out.sections, Len(sections) + 1, Len(out.sections)),
               ![r].text_chunks =
                   [j \in 1..Len(out.text_chunks) |->
                       [ id          |-> Len(text_chunks) + j,
                         document_id |-> out.text_chunks[j].document_id,
                         section_id  |-> out.text_chunks[j].section_id,
                         chunk_text  |-> out.text_chunks[j].chunk_text,
                         chunk_index |-> out.text_chunks[j].chunk_index ]],
               ![r].pc = "commit_sections"]
    /\ write_lock' = r
    /\ UNCHANGED <<documents, sections, text_chunks>>
    /\ UNCHANGED nonConvRace

\* line 366: self.conn.commit(); insert_references finds no reference and the
\* conversion is counted as successful (lines 434-436)
ConvCommitSections(r) ==
    /\ runs[r].kind = "convert"
    /\ runs[r].pc = "commit_sections"
    /\ sections' = sections \o runs[r].sections
    /\ text_chunks' = text_chunks \o runs[r].text_chunks
    /\ runs' = [runs EXCEPT ![r].sections = <<>>, ![r].text_chunks = <<>>,
                             ![r].pc = "done"]
    /\ write_lock' = 0
    /\ UNCHANGED documents
    /\ UNCHANGED nonConvRace

\* an INSERT of lines 279 or 319 that waited for the write lock until the
\* timeout: OperationalError is caught at line 438 and the run ends
ConvLocked(r) ==
    /\ runs[r].kind = "convert"
    /\ runs[r].pc \in {"insert_document", "insert_sections"}
    /\ ~CanWrite(r)
    /\ runs' = [runs EXCEPT ![r].pc = "OperationalError"]
    /\ UNCHANGED <<write_lock, documents, sections, text_chunks>>
    /\ UNCHANGED nonConvRace

\* the two runs
Runs == {1, 2}

\* the database of the TEI ingestion when the two runs start: empty, or
\* holding the metadata row of an earlier run on "a.pdf" that found no text
RaceTables ==
    /\ tei_metadata \in {<<>>, <<[pdf_id |-> 1, source_file |-> "a.pdf"]>>}
    /\ tei_chunks = <<>>
    /\ pdf_db_id = NoId
    /\ inserted_chunks = 0
    /\ generated_keys = <<>>
    /\ ingested = {}

\* two runs started: both of the TEI ingestion or both of the converter (on
\* empty tables), on the same or on different documents
RaceInit ==
    /\ write_lock = 0
    /\ \/ \E f1, f2 \in SourceFiles, n1, n2 \in 1..MaxRaceBlocks :
              runs = <<TeiRun(f1, n1), TeiRun(f2, n2)>>
       \/ /\ \E d1, d2 \in RaceAnalyses : runs = <<ConvRun(d1), ConvRun(d2)>>
          /\ tei_metadata = <<>>

RaceNext ==
    \E r \in Runs :
        \/ TeiSelectPdf(r)
        \/ TeiInsertMetadata(r)
        \/ TeiSelectChunk(r)
        \/ TeiInsertChunk(r)
        \/ TeiCommit(r)
        \/ TeiLocked(r)
        \/ ConvSelectHash(r)
        \/ ConvInsertDocument(r)
        \/ ConvCommitDocument(r)
        \/ ConvInsertSections(r)
        \/ ConvCommitSections(r)
        \/ ConvLocked(r)

-----------------------------------------------------------------------------
(* GrobidXMLAnalyzer.categorize_section and similarity,                       *)
(* src/xml_analyzer.py:173-201.  A score is the exact fraction num / den.     *)

\* self.section_mappings (lines 17-31), in the order the dict is iterated
Taxonomy ==
    << [ category |-> "resumen",
         keywords |-> << <<"r", "e", "s", "u", "m", "e", "n">>,
                        <<"s", "u", "m", "m", "a", "r", "y">>,
                        <<"a", "b", "s", "t", "r", "a", "c", "t">>,
                        <<"s", "í", "n", "t", "e", "s", "i", "s">> >> ],
       [ category |-> "abstract",
         keywords |-> << <<"a", "b", "s", "t", "r", "a", "c", "t">>,
                        <<"r", "e", "s", "u", "m", "e", "n">>,
                        <<"s", "u", "m", "m", "a", "r", "y">> >> ],
       [ category |-> "introduccion",
         keywords |-> << <<"i", "n", "t", "r", "o", "d", "u", "c", "c", "i", "ó", "n">>,
                        <<"i", "n", "t", "r", "o", "d", "u", "c", "t", "i", "o", "n">>,
                        <<"i", "n", "t", "r", "o">>,
                        <<"p", "r", "e", "s", "e", "n", "t", "a", "c", "i", "ó", "n">> >> ],
       [ category |-> "antecedentes",
         keywords |-> << <<"a", "n", "t", "e", "c", "e", "d", "e", "n", "t", "e", "s">>,
                        <<"b", "a", "c", "k", "g", "r", "o", "u", "n", "d">>,
                        <<"m", "a", "r", "c", "o", " ", "h", "i", "s", "t", "ó", "r", "i", "c", "o">>,
                        <<"c", "o", "n", "t", "e", "x", "t", "o", " ", "h", "i", "s", "t", "ó", "r", "i", "c", "o">> >> ],
       [ category |-> "estado_del_arte",
         keywords |-> << <<"e", "s", "t", "a", "d", "o", " ", "d", "e", "l", " ", "a", "r", "t", "e">>,
                        <<"s", "t", "a", "t", "e", " ", "o", "f", " ", "t", "h", "e", " ", "a", "r", "t">>,
                        <<"r", "e", "v", "i", "s", "i", "ó", "n", " ", "b", "i", "b", "l", "i", "o", "g", "r", "á", "f", "i", "c", "a">>,
                        <<"l", "i", "t", "e", "r", "a", "t", "u", "r", "e", " ", "r", "e", "v", "i", "e", "w">>,
                        <<"m", "a", "r", "c", "o", " ", "t", "e", "ó", "r", "i", "c", "o">> >> ],
       [ category |-> "objetivos",
         keywords |-> << <<"o", "b", "j", "e", "t", "i", "v", "o", "s">>,
                        <<"o", "b", "j", "e", "c", "t", "i", "v", "e", "s">>,
                        <<"g", "o", "a", "l", "s">>,
                        <<"p", "r", "o", "p", "ó", "s", "i", "t", "o", "s">> >> ],
       [ category |-> "justificacion",
         keywords |-> << <<"j", "u", "s", "t", "i", "f", "i", "c", "a", "c", "i", "ó", "n">>,
                        <<"j", "u", "s", "t", "i", "f", "i", "c", "a", "t", "i", "o", "n">>,
                        <<"m", "o", "t", "i", "v", "a", "c", "i", "ó", "n">>,
                        <<"m", "o", "t", "i", "v", "a", "t", "i", "o", "n">> >> ],
       [ category |-> "objetivo_general",
         keywords |-> << <<"o", "b", "j", "e", "t", "i", "v", "o", " ", "g", "e", "n", "e", "r", "a", "l">>,
                        <<"g", "e", "n", "e", "r", "a", "l", " ", "o", "b", "j", "e", "c", "t", "i", "v", "e">>,
                        <<"m", "a", "i", "n", " ", "o", "b", "j", "e", "c", "t", "i", "v", "e">>,
                        <<"p", "r", "o", "p", "ó", "s", "i", "t", "o", " ", "g", "e", "n", "e", "r", "a", "l">> >> ],
       [ category |-> "hipotesis",
         keywords |-> << <<"h", "i", "p", "ó", "t", "e", "s", "i", "s">>,
                        <<"h", "y", "p", "o", "t", "h", "e", "s", "i", "s">>,
                        <<"s", "u", "p", "u", "e", "s", "t", "o", "s">>,
                        <<"a", "s", "s", "u", "m", "p", "t", "i", "o", "n", "s">> >> ],
       [ category |-> "metodologia",
         keywords |-> << <<"m", "e", "t", "o", "d", "o", "l", "o", "g", "í", "a">>,
                        <<"m", "e", "t", "h", "o", "d", "o", "l", "o", "g", "y">>,
                        <<"m", "é", "t", "o", "d", "o", "s">>,
                        <<"m", "e", "t", "h", "o", "d", "s">>,
                        <<"d", "i", "s", "e", "ñ", "o", " ", "m", "e", "t", "o", "d", "o", "l", "ó", "g", "i", "c", "o">> >> ],
       [ category |-> "resultados",
         keywords |-> << <<"r", "e", "s", "u", "l", "t", "a", "d", "o", "s">>,
                        <<"r", "e", "s", "u", "l", "t", "s">>,
                        <<"f", "i", "n", "d", "i", "n", "g", "s">>,
                        <<"h", "a", "l", "l", "a", "z", "g", "o", "s">> >> ],
       [ category |-> "conclusiones",
         keywords |-> << <<"c", "o", "n", "c", "l", "u", "s", "i", "o", "n", "e", "s">>,
                        <<"c", "o", "n", "c", "l", "u", "s", "i", "o", "n", "s">>,
                        <<"c", "o", "n", "c", "l", "u", "s", "i", "ó", "n">>,
                        <<"c", "o", "n", "c", "l", "u", "s", "i", "o", "n">>,
                        <<"c", "i", "e", "r", "r", "e">> >> ] >>

\* the characters the class \w matches: letters, digits and the underscore
WordChars ==
    {LowerChars[i] : i \in 1..Len(LowerChars)} \cup {UpperChars[i] : i \in 1..Len(UpperChars)}
        \cup {"0", "1", "2", "3", "4", "5", "6", "7", "8", "9", "_"}

\* re.sub(r'[^\w\s]', '', s)
RECURSIVE StripPunctuationFrom(_, _)
StripPunctuationFrom(s, i) ==
    IF i > Len(s) THEN <<>>
    ELSE IF s[i] \in WordChars \cup Whitespace
    THEN <<s[i]>> \o StripPunctuationFrom(s, i + 1)
    ELSE StripPunctuationFrom(s, i + 1)

StripPunctuation(s) == StripPunctuationFrom(s, 1)

\* the length of the common run of a from offset i (below ahi) and b from
\* offset j (below bhi)
RECURSIVE MatchLen(_, _, _, _, _, _)
MatchLen(a, b, i, j, ahi, bhi) ==
    IF i < ahi /\ j < bhi /\ a[i + 1] = b[j + 1]
    THEN 1 + MatchLen(a, b, i + 1, j + 1, ahi, bhi)
    ELSE 0

\* the offsets <<i, j>> in the two ranges at which a and b agree
MatchStarts(a, b, alo, ahi, blo, bhi) ==
    {p \in (alo..(ahi - 1)) \X (blo..(bhi - 1)) : a[p[1] + 1] = b[p[2] + 1]}

\* of the blocks of size k, the one starting earliest in a and, of those, the
\* one starting earliest in b
EarliestBlock(starts, k) ==
    LET i == SetMin({p[1] : p \in starts})
    IN  <<i, SetMin({p[2] : p \in {q \in starts : q[1] = i}}), k>>

LongestBlock(a, b, ahi, bhi, starts, k) ==
    EarliestBlock({p \in starts : MatchLen(a, b, p[1], p[2], ahi, bhi) = k}, k)

\* SequenceMatcher.find_longest_match(alo, ahi, blo, bhi) without junk: the
\* longest block, of those the one starting earliest in a, of those the one
\* starting earliest in b; <<alo, blo, 0>> when nothing matches
FindLongestMatchIn(a, b, alo, ahi, blo, bhi, starts) ==
    IF starts = {} THEN <<alo, blo, 0>>
    ELSE LongestBlock(a, b, ahi, bhi, starts,
                      SetMax({MatchLen(a, b, p[1], p[2], ahi, bhi) : p \in starts}))

FindLongestMatch(a, b, alo, ahi, blo, bhi) ==
    FindLongestMatchIn(a, b, alo, ahi, blo, bhi, MatchStarts(a, b, alo, ahi, blo, bhi))

\* SequenceMatcher.get_matching_blocks: the total size of the matching blocks
\* of the two ranges, m being their longest block
RECURSIVE MatchingSizeAround(_, _, _, _, _, _, _)
MatchingSizeAround(a, b, alo, ahi, blo, bhi, m) ==
    IF m[3] = 0 THEN 0
    ELSE m[3]
         + (IF alo < m[1] /\ blo < m[2]
            THEN MatchingSizeAround(a, b, alo, m[1], blo, m[2],
                                    FindLongestMatch(a, b, alo, m[1], blo, m[2]))
            ELSE 0)
         + (IF m[1] + m[3] < ahi /\ m[2] + m[3] < bhi
            THEN MatchingSizeAround(a, b, m[1] + m[3], ahi, m[2] + m[3], bhi,
                                    FindLongestMatch(a, b, m[1] + m[3], ahi, m[2] + m[3], bhi))
            ELSE 0)

MatchingSize(a, b, alo, ahi, blo, bhi) ==
    MatchingSizeAround(a, b, alo, ahi, blo, bhi, FindLongestMatch(a, b, alo, ahi, blo, bhi))

\* SequenceMatcher(None, a, b).ratio(): 2.0 * matches / (len(a) + len(b)), and
\* 1.0 for two empty strings
Ratio(a, b) ==
    IF Len(a) + Len(b) = 0 THEN [num |-> 1, den |-> 1]
    ELSE [num |-> 2 * MatchingSize(a, b, 0, Len(a), 0, Len(b)), den |-> Len(a) + Len(b)]

\* lines 173-175
similarity(a, b) == Ratio(Lower(a), Lower(b))

\* x > y for scores
ScoreGreater(x, y) == x.num * y.den > y.num * x.den

\* line 196: score = 0.7
ContentScore == [num |-> 7, den |-> 10]

\* line 201: 0.6
AcceptThreshold == [num |-> 6, den |-> 10]

\* line 194: content[:200]
ContentWindow == 200

\* lines 189 / 197 with >= in place of >
ImprovesOrTies(score, best) == ~ScoreGreater(best, score)

\* lines 189 / 197: `if score > best_score`
Improves(score, best) == ScoreGreater(score, best)

\* line 201 with >= in place of >
AcceptedOrEqual(score) == ~ScoreGreater(AcceptThreshold, score)

\* line 201: `best_score > 0.6`
Accepted(score) == ScoreGreater(score, AcceptThreshold)

\* lines 181-182 with the values the previous call left behind
InitialBestCarried == [match |-> best_match, score |-> best_score]

\* lines 181-182: best_match = None, best_score = 0
InitialBest == [match |-> None, score |-> [num |-> 0, den |-> 1]]

\* lines 186-199: the two comparisons of one keyword
AfterKeyword(best, category, keyword, section_title_clean, content_start) ==
    LET b1 == IF Contains(section_title_clean, keyword)
                 /\ Improves(similarity(section_title_clean, keyword), best.score)
              THEN [match |-> category, score |-> similarity(section_title_clean, keyword)]
              ELSE best
    IN  IF Contains(content_start, keyword) /\ Improves(ContentScore, b1.score)
        THEN [match |-> category, score |-> ContentScore]
        ELSE b1

\* lines 184-199: the loops from keyword ki of category ci on
RECURSIVE CategorizeFrom(_, _, _, _, _, _)
CategorizeFrom(mappings, section_title_clean, content_start, ci, ki, best) ==
    IF ci > Len(mappings) THEN best
    ELSE IF ki > Len(mappings[ci].keywords)
    THEN CategorizeFrom(mappings, section_title_clean, content_start, ci + 1, 1, best)
    ELSE LET next == AfterKeyword(best, mappings[ci].category, mappings[ci].keywords[ki],
                                  section_title_clean, content_start)
         IN  IF next = best
             THEN CategorizeFrom(mappings, section_title_clean, content_start, ci, ki + 1, best)
             ELSE CategorizeFrom(mappings, section_title_clean, content_start, ci, ki + 1, next)

\* line 179
CleanTitle(section_title) == StripPunctuation(Lower(section_title))

\* line 194 without the [:200] slice
ContentStartWhole(content) ==
    IF Truthy(content) THEN Lower(content) ELSE <<>>

\* line 194
ContentStart(content) ==
    IF Truthy(content) THEN Lower(Slice(content, 0, ContentWindow)) ELSE <<>>

\* lines 177-201: the locals at the return and the returned category
categorize_section(mappings, section_title, content) ==
    CHOOSE r \in { [ best_match |-> best.match,
                     best_score |-> best.score,
                     ret        |-> IF Accepted(best.score) THEN best.match ELSE "otros" ]
                   : best \in { CategorizeFrom(mappings, section_title_clean, content_start,
                                               1, 1, InitialBest)
                                : section_title_clean \in {CleanTitle(section_title)},
                                  content_start \in {ContentStart(content)} } } : TRUE

\* the headings and contents handed to categorize_section
Headings ==
    { <<"R", "e", "l", "a", "t", "e", "d", " ", "W", "o", "r", "k">>,
      <<"M", "e", "t", "o", "d", "o", "l", "o", "g", "í", "a">>,
      <<"X", "Y", "Z", "1", "2", "3">>,
      <<"A", "b", "s", "t", "r", "a", "c", "t">>,
      <<"C", "i", "e", "r", "r", "e", " ", "p", "a", "r", "c", "i", "a", "l">>,
      <<"M", "e", "t", "h", "o", "d", "s", ".">> }

Contents == { <<>>, <<"a", " ", "S", "u", "m", "m", "a", "r", "y", ".">> }

\* no analyzer constructed
ClassIdle ==
    /\ section_mappings = <<>>
    /\ class_log = <<>>
    /\ best_match = None
    /\ best_score = [num |-> 0, den |-> 1]

\* GrobidXMLAnalyzer() (lines 12-31), before any call of categorize_section
ClassInit ==
    /\ section_mappings = Taxonomy
    /\ class_log = <<>>
    /\ best_match = None
    /\ best_score = [num |-> 0, den |-> 1]

\* one call categorize_section(section_title, content)
CategorizeSection(section_title, content) ==
    /\ Len(class_log) < MaxCalls
    /\ \E r \in {categorize_section(section_mappings, section_title, content)} :
           /\ class_log' = Append(class_log, [ section_title |-> section_title,
                                               content       |-> content,
                                               ret           |-> r.ret ])
           /\ best_match' = r.best_match
           /\ best_score' = r.best_score
    /\ UNCHANGED <<section_mappings, nonClass>>

CategorizeCall == \E h \in Headings, b \in Contents : CategorizeSection(h, b)

ClassNext == CategorizeCall

\* the headings of the wide runs: the first keyword of every category, other
\* keywords, headings that hold a keyword among other words, and headings
\* without keyword
WideHeadings ==
    { <<"R", "e", "s", "u", "m", "e", "n">>,
      <<"A", "b", "s", "t", "r", "a", "c", "t">>,
      <<"S", "u", "m", "m", "a", "r", "y">>,
      <<"I", "n", "t", "r", "o", "d", "u", "c", "c", "i", "ó", "n">>,
      <<"A", "n", "t", "e", "c", "e", "d", "e", "n", "t", "e", "s">>,
      <<"E", "s", "t", "a", "d", "o", " ", "d", "e", "l", " ", "a", "r", "t", "e">>,
      <<"O", "b", "j", "e", "t", "i", "v", "o", "s">>,
      <<"J", "u", "s", "t", "i", "f", "i", "c", "a", "c", "i", "ó", "n">>,
      <<"O", "b", "j", "e", "t", "i", "v", "o", " ", "g", "e", "n", "e", "r", "a", "l">>,
      <<"H", "i", "p", "ó", "t", "e", "s", "i", "s">>,
      <<"M", "e", "t", "o", "d", "o", "l", "o", "g", "í", "a">>,
      <<"R", "e", "s", "u", "l", "t", "a", "d", "o", "s">>,
      <<"C", "o", "n", "c", "l", "u", "s", "i", "o", "n", "e", "s">>,
      <<"M", "a", "r", "c", "o", " ", "t", "e", "ó", "r", "i", "c", "o">>,
      <<"C", "i", "e", "r", "r", "e", " ", "p", "a", "r", "c", "i", "a", "l">>,
      <<"R", "e", "s", "u", "l", "t", "s", " ", "t", "a", "b", "l", "e">>,
      <<"S", "u", "m", "m", "a", "r", "y", " ", "o", "f", " ", "r", "e", "s", "u", "l", "t", "s">>,
      <<"A", "b", "s", "t", "r", "a", "c", "t", ":">>,
      <<"X", "Y", "Z", "1", "2", "3">>,
      <<"R", "e", "l", "a", "t", "e", "d", " ", "W", "o", "r", "k">>,
      <<"I", "n", "t", "r", "o", "d", "u", "c", "t", "i", "o", "n">>,
      <<"M", "e", "t", "h", "o", "d", "s", ".">>,
      <<"C", "o", "n", "c", "l", "u", "s", "i", "ó", "n">>,
      <<"H", "a", "l", "l", "a", "z", "g", "o", "s", " ", "y", " ", "c", "i", "e", "r", "r", "e">>,
      <<>> }

\* n characters that belong to no keyword
Filler(n) == [i \in 1..n |-> "x"]

\* the bodies of the wide runs: none, one with a keyword, one with keywords of
\* two categories, one whose keyword ends at character 200 and is followed by
\* another keyword
WideContents ==
    { <<>>,
      <<"E", "l", " ", "c", "i", "e", "r", "r", "e", ".">>,
      <<"S", "u", "m", "m", "a", "r", "y", " ", "o", "f", " ", "m", "e", "t", "h", "o", "d", "s", ".">>,
      Filler(ContentWindow - 6) \o <<"c", "i", "e", "r", "r", "e">> \o <<"s", "u", "m", "m", "a", "r", "y">> }

\* one call categorize_section(section_title, content) of the wide runs
CategorizeWide(section_title, content) ==
    /\ Len(class_log) < MaxWideCalls
    /\ CategorizeSection(section_title, content)

CategorizeWideCall == \E h \in WideHeadings, b \in WideContents : CategorizeWide(h, b)

WideNext == CategorizeWideCall

-----------------------------------------------------------------------------
(* The stores the searchers read: tables chunks and metadata as               *)
(* src/pruebas_calderon/from_tei_to_sqlite.py fills them                      *)

Sections == {"Abstract", "Methods"}

\* pdf_id values of the documents with a row in table metadata: insert_chunk
\* (line 163) stores the pdf_id of such a row
PdfIds == {1, 2}

\* the rows of table metadata (lines 106-116); published_date is None when the
\* TEI header has no date (line 94), every other column is a string
MetadataRows ==
    { [ pdf_id         |-> 1,
        title          |-> <<"D", "e", "e", "p">>,
        student_id     |-> 12345,
        student_name   |-> <<"J", "u", "a", "n">>,
        journal        |-> <<"A", "I">>,
        editorial      |-> <<>>,
        published_date |-> <<"2", "0", "2", "2", "-", "0", "5">>,
        abstract       |-> <<"n", "e", "t">>,
        keywords       |-> <<"n", "l", "p">>,
        affiliations   |-> <<"L", "a", "b">>,
        authors        |-> <<"A", "n", "a", ";", " ", "J", "u", "a", "n">> ],
      [ pdf_id         |-> 2,
        title          |-> <<"N", "e", "t">>,
        student_id     |-> 12345,
        student_name   |-> <<"J", "u", "a", "n">>,
        journal        |-> <<>>,
        editorial      |-> <<"E", "d">>,
        published_date |-> None,
        abstract       |-> <<"d", "e", "e", "p">>,
        keywords       |-> <<>>,
        affiliations   |-> <<"L", "a", "b">>,
        authors        |-> <<"L", "u", "z">> ] }

\* a row of table chunks whose pdf_id has no row in table metadata (the join of
\* _get_chunk_with_metadata yields nothing for it)
OrphanChunk == [section |-> "Abstract", pdf_id |-> SetMax(PdfIds) + 1]

\* a row of table chunks: its section and the document it belongs to
ChunkKinds == [section : Sections, pdf_id : PdfIds] \cup {OrphanChunk}

Stores ==
    UNION { { [i \in 1..n |-> [ chunk_id |-> ChunkKey(f[i].pdf_id, i - 1),
                                pdf_id   |-> f[i].pdf_id,
                                section  |-> f[i].section ]]
              : f \in [1..n -> ChunkKinds] }
            : n \in 0..MaxStored }

-----------------------------------------------------------------------------
(* Python string primitives used by the attribute filters *)

\* s.split(";")
RECURSIVE SplitFrom(_, _, _)
SplitFrom(s, i, cur) ==
    IF i > Len(s) THEN <<cur>>
    ELSE IF s[i] = ";" THEN <<cur>> \o SplitFrom(s, i + 1, <<>>)
    ELSE SplitFrom(s, i + 1, Append(cur, s[i]))

SplitSemicolon(s) == SplitFrom(s, 1, <<>>)

-----------------------------------------------------------------------------
(* FaissSemanticSearchSQLite, src/pruebas_calderon/semantic_search_sqlite.py, *)
(* and FaissSemanticSearch, src/pruebas_calderon/semantic_search.py           *)

\* index.search(query_vec, k * 10)
OverfetchSqlite == 10

\* index.search(query_vec, k * 5)
OverfetchJson == 5

\* sections=None / filters=None
NoneSections == {"<None>"}

NoneFilters == [x \in {"<None>"} |-> TRUE]

\* truthiness of the sections and filters arguments (None and empty are falsy)
TruthySections(secs) == secs # NoneSections /\ secs # {}

TruthyFilters(f) == "<None>" \notin DOMAIN f /\ DOMAIN f # {}

\* the keys compared with `filters[key].lower() not in chunk[key].lower()`
SubstringKeys ==
    {"title", "student_name", "journal", "editorial", "abstract", "keywords", "affiliations"}

\* _load_chunk_ids (lines 16-19); every chunk text of the model is longer than
\* 20 characters
LoadChunkIds(st) == [i \in 1..Len(st) |-> st[i].chunk_id]

\* _get_chunk_with_metadata (lines 93-104): the rows of chunks JOIN metadata
\* with this chunk_id, of which fetchone() takes the first
GetChunkWithMetadata(st, chunk_id) ==
    LET hits == {i \in 1..Len(st) :
                    /\ st[i].chunk_id = chunk_id
                    /\ \E m \in MetadataRows : m.pdf_id = st[i].pdf_id}
    IN  IF hits = {} THEN <<>>
        ELSE LET c == st[SetMin(hits)]
                 m == CHOOSE m \in MetadataRows : m.pdf_id = c.pdf_id
             IN  << [ chunk_id       |-> c.chunk_id,
                      section        |-> c.section,
                      title          |-> m.title,
                      student_id     |-> m.student_id,
                      student_name   |-> m.student_name,
                      journal        |-> m.journal,
                      editorial      |-> m.editorial,
                      published_date |-> m.published_date,
                      abstract       |-> m.abstract,
                      keywords       |-> m.keywords,
                      affiliations   |-> m.affiliations,
                      authors        |-> m.authors ] >>

\* self.metadata[idx] of FaissSemanticSearch: the item of the JSON file
JsonItem(st, idx) ==
    LET c == st[idx + 1]
    IN  [ id |-> c.chunk_id, pdf_id |-> c.pdf_id, section |-> c.section ]

\* what index.search(query_vec, n) returns for an index of ntotal vectors that
\* ranks them in the order `ranking`: n labels, -1 past the last vector, and
\* the ascending distances (in tenths)
IndexSearch(ranking, ntotal, n) ==
    [ I |-> [r \in 1..n |-> IF r <= ntotal THEN ranking[r] ELSE 0 - 1],
      D |-> [r \in 1..n |-> IF r <= ntotal THEN r ELSE 999] ]

\* the rankings a query may give the n vectors: the rotations of the index order
Rankings(n) ==
    { [r \in 1..n |-> (rot + r - 1) % n] : rot \in 0..Max2(n - 1, 0) }

\* lines 23 / 31 asking the index for k candidates only
FetchSizeExact(impl, k) == k

\* lines 23 / 31: k * 10, k * 5
FetchSize(impl, k) == IF impl = "sqlite" THEN k * OverfetchSqlite ELSE k * OverfetchJson

\* line 36: `if sections and chunk["section"] not in sections: continue`
SectionRejectsSqlite(secs, chunk) == TruthySections(secs) /\ chunk.section \notin secs

\* line 38 of semantic_search.py: `if sections is None or item.get("section") in sections`
SectionAcceptsJson(secs, item) == secs = NoneSections \/ item.section \in secs

\* lines 48-51: the names of the author filter, then any(name.lower() in authors.lower())
AuthorNames(v) ==
    IF "str" \in DOMAIN v
    THEN LET parts == SplitSemicolon(v.str) IN [i \in 1..Len(parts) |-> Strip(parts[i])]
    ELSE v.list

AuthorMatches(v, chunk) ==
    \E i \in 1..Len(AuthorNames(v)) : Contains(Lower(chunk.authors), Lower(AuthorNames(v)[i]))

\* lines 40-66 discarding every candidate when the mapping holds a key that
\* none of the tests names
FiltersRejectStrict(filters, chunk) ==
    /\ TruthyFilters(filters)
    /\ \/ \E key \in SubstringKeys \cap DOMAIN filters :
              ~Contains(Lower(chunk[key]), Lower(filters[key]))
       \/ "student_id" \in DOMAIN filters /\ filters["student_id"] # chunk.student_id
       \/ "author" \in DOMAIN filters /\ ~AuthorMatches(filters["author"], chunk)
       \/ /\ "year" \in DOMAIN filters
          /\ Truthy(chunk.published_date)
          /\ filters["year"] # Slice(chunk.published_date, 0, 4)
       \/ DOMAIN filters \ (SubstringKeys \cup {"student_id", "author", "year"}) # {}

\* lines 40-66: TRUE iff one of the `continue` statements is taken
FiltersReject(filters, chunk) ==
    /\ TruthyFilters(filters)
    /\ \/ \E key \in SubstringKeys \cap DOMAIN filters :
              ~Contains(Lower(chunk[key]), Lower(filters[key]))
       \/ "student_id" \in DOMAIN filters /\ filters["student_id"] # chunk.student_id
       \/ "author" \in DOMAIN filters /\ ~AuthorMatches(filters["author"], chunk)
       \/ /\ "year" \in DOMAIN filters
          /\ Truthy(chunk.published_date)
          /\ filters["year"] # Slice(chunk.published_date, 0, 4)

\* lines 73 / 45 with the result's position in place of the candidate's rank
ScoreOfResultPosition(D, rank, nresults) == D[nresults + 1]

\* lines 73 / 45: "score": float(D[0][rank])
ScoreOf(D, rank, nresults) == D[rank]

\* lines 68-86: the result record (the columns copied unchanged besides these
\* are left out)
HitSqlite(chunk, score) ==
    [ chunk_id       |-> chunk.chunk_id,
      section        |-> chunk.section,
      score          |-> score,
      title          |-> chunk.title,
      student_id     |-> chunk.student_id,
      authors        |-> chunk.authors,
      published_date |-> chunk.published_date ]

\* lines 39-55 of semantic_search.py
HitJson(item, score) ==
    [ id |-> item.id, pdf_id |-> item.pdf_id, section |-> item.section, score |-> score ]

\* lines 88 / 56 with > in place of >=
BreakAtAbove(nresults, k) == nresults > k

\* lines 88 / 56: `if len(results) >= k: break`
BreakAt(nresults, k) == nresults >= k

\* lines 26 / 34 visiting every other candidate
NextRankSkipping(rank) == rank + 2

\* lines 26 / 34: `for rank, idx in enumerate(I[0])`
NextRank(rank) == rank + 1

\* lines 25-91: the loop from candidate `rank` on; q holds k, sections, filters,
\* I, D, chunk_ids and the store
RECURSIVE SqliteLoop(_, _, _, _)
SqliteLoop(q, rank, res, looked) ==
    IF rank > Len(q.I) THEN [results |-> res, lookups |-> looked]
    ELSE LET idx == q.I[rank]
         IN  IF idx < 0 \/ idx >= Len(q.chunk_ids)
             THEN SqliteLoop(q, NextRank(rank), res, looked)
             ELSE LET rows == GetChunkWithMetadata(q.store, q.chunk_ids[idx + 1])
                  IN  IF rows = <<>>
                      THEN SqliteLoop(q, NextRank(rank), res, looked + 1)
                      ELSE IF \/ SectionRejectsSqlite(q.sections, rows[1])
                              \/ FiltersReject(q.filters, rows[1])
                      THEN SqliteLoop(q, NextRank(rank), res, looked + 1)
                      ELSE LET res2 == Append(res, HitSqlite(rows[1], ScoreOf(q.D, rank, Len(res))))
                           IN  IF BreakAt(Len(res2), q.k)
                               THEN [results |-> res2, lookups |-> looked + 1]
                               ELSE SqliteLoop(q, NextRank(rank), res2, looked + 1)

\* lines 33-58 of semantic_search.py
RECURSIVE JsonLoop(_, _, _, _)
JsonLoop(q, rank, res, looked) ==
    IF rank > Len(q.I) THEN [results |-> res, lookups |-> looked]
    ELSE LET idx == q.I[rank]
         IN  IF idx < 0 \/ idx >= Len(q.store)
             THEN JsonLoop(q, NextRank(rank), res, looked)
             ELSE LET item == JsonItem(q.store, idx)
                  IN  IF ~SectionAcceptsJson(q.sections, item)
                      THEN JsonLoop(q, NextRank(rank), res, looked + 1)
                      ELSE LET res2 == Append(res, HitJson(item, ScoreOf(q.D, rank, Len(res))))
                           IN  IF BreakAt(Len(res2), q.k)
                               THEN [results |-> res2, lookups |-> looked + 1]
                               ELSE JsonLoop(q, NextRank(rank), res2, looked + 1)

\* the sections arguments: None or any list of section names
SectionChoices == {NoneSections} \cup SUBSET Sections

\* the filters arguments: None, the empty mapping, a mapping of one recognised
\* key and a mapping of two
FilterChoices ==
    { NoneFilters,
      <<>>,
      "title" :> <<"e", "E">>,
      ("year" :> <<"2", "0", "2", "2">>)
          @@ ("author" :> [str |-> <<"l", "u", "z", ";", " ", "B", "o">>]) }

SearchIdle ==
    /\ store = <<>>
    /\ stale = 0
    /\ spc = "idle"
    /\ sarg = [impl |-> "sqlite", k |-> 1, sections |-> NoneSections, filters |-> NoneFilters]
    /\ ann = [I |-> <<>>, D |-> <<>>]
    /\ requested = 0
    /\ index_queries = 0
    /\ lookups = 0
    /\ results = <<>>

\* an index and a store, the index holding `stale` vectors more than the store
\* holds chunks.  A search changes neither, so every call starts from such a
\* state: a behaviour is one call.
SearchInit ==
    /\ store \in Stores
    /\ stale \in {0, 1}
    /\ spc = "idle"
    /\ sarg = [impl |-> "sqlite", k |-> 1, sections |-> NoneSections, filters |-> NoneFilters]
    /\ ann = [I |-> <<>>, D |-> <<>>]
    /\ requested = 0
    /\ index_queries = 0
    /\ lookups = 0
    /\ results = <<>>

\* FaissSemanticSearchSQLite.search(query, k, sections, filters) (lines 21-91),
\* the query ranking the vectors in the order `ranking`
SearchSqlite(k, secs, filters, ranking) ==
    /\ spc = "idle"
    /\ LET n   == FetchSize("sqlite", k)
           a   == IndexSearch(ranking, Len(store) + stale, n)
           out == SqliteLoop([ k |-> k, sections |-> secs, filters |-> filters,
                               I |-> a.I, D |-> a.D,
                               chunk_ids |-> LoadChunkIds(store), store |-> store ],
                             1, <<>>, 0)
       IN  /\ sarg' = [impl |-> "sqlite", k |-> k, sections |-> secs, filters |-> filters]
           /\ ann' = a
           /\ requested' = n
           /\ index_queries' = 1
           /\ lookups' = out.lookups
           /\ results' = out.results
           /\ spc' = "returned"
           /\ UNCHANGED <<store, stale, nonSearch>>

\* FaissSemanticSearch.search(query, sections, k) (lines 22-58); the constructor
\* asserts index.ntotal == len(self.metadata) (line 20)
SearchJson(k, secs, ranking) ==
    /\ spc = "idle"
    /\ stale = 0
    /\ LET n   == FetchSize("json", k)
           a   == IndexSearch(ranking, Len(store), n)
           out == JsonLoop([ k |-> k, sections |-> secs, I |-> a.I, D |-> a.D,
                             store |-> store ],
                           1, <<>>, 0)
       IN  /\ sarg' = [impl |-> "json", k |-> k, sections |-> secs, filters |-> NoneFilters]
           /\ ann' = a
           /\ requested' = n
           /\ index_queries' = 1
           /\ lookups' = out.lookups
           /\ results' = out.results
           /\ spc' = "returned"
           /\ UNCHANGED <<store, stale, nonSearch>>

SearchSqliteCall ==
    /\ spc = "idle"
    /\ \E k \in 1..MaxK, secs \in SectionChoices, filters \in FilterChoices,
          ranking \in Rankings(Len(store) + stale) :
           SearchSqlite(k, secs, filters, ranking)

SearchJsonCall ==
    /\ spc = "idle"
    /\ stale = 0
    /\ \E k \in 1..MaxK, secs \in SectionChoices, ranking \in Rankings(Len(store)) :
           SearchJson(k, secs, ranking)

\* keys no test of lines 40-66 names, with values of several types: a string, a
\* number, None; "Title" differs from the recognised "title" by its capital
UnknownEntries ==
    { <<>>,
      "color" :> <<"r", "e", "d">>,
      ("Title" :> <<"z", "z">>) @@ ("limit" :> 7) @@ ("lang" :> None) }

\* the filters arguments of the runs with unknown keys: the empty mapping and
\* the mappings of recognised keys, each with and without unknown entries
FiltersWithUnknownKeys ==
    { base @@ extra : base \in FilterChoices \ {NoneFilters}, extra \in UnknownEntries }

SearchUnknownKeysCall ==
    /\ spc = "idle"
    /\ \E k \in 1..MaxK, secs \in {NoneSections, {"Methods"}},
          filters \in FiltersWithUnknownKeys, ranking \in Rankings(Len(store) + stale) :
           SearchSqlite(k, secs, filters, ranking)

UnknownKeysNext == SearchUnknownKeysCall

SearchNext == SearchSqliteCall \/ SearchJsonCall

-----------------------------------------------------------------------------
(* The components below at rest *)

\* no row awaits a commit
BatchIdle == uncommitted = [sections |-> 0, text_chunks |-> 0, bibliographic_references |-> 0]

\* no index file, no searcher
PipelineIdle ==
    /\ faiss_index = [exists |-> FALSE, vectors |-> <<>>]
    /\ searcher = [opened |-> FALSE, index |-> <<>>, chunk_ids |-> <<>>]
    /\ associated = {}

\* no run
RaceIdle ==
    /\ runs = <<>>
    /\ write_lock = 0

RestIdle == BatchIdle /\ PipelineIdle /\ RaceIdle

-----------------------------------------------------------------------------
(* Specifications: one per component, the other components at rest *)

InitTok == TokInit /\ DocIdle /\ SearchIdle /\ ConvIdle /\ IngestIdle /\ ClassIdle /\ RestIdle

SpecTok == InitTok /\ [][TokNext]_vars

InitSnap == TokInitSnap /\ DocIdle /\ SearchIdle /\ ConvIdle /\ IngestIdle /\ ClassIdle /\ RestIdle

SpecSnap == InitSnap /\ [][SnapNext]_vars

InitDocs == TokIdle /\ DocIdle /\ SearchIdle /\ ConvIdle /\ IngestIdle /\ ClassIdle /\ RestIdle

SpecDocs == InitDocs /\ [][DocNext]_vars

InitSearch == TokIdle /\ DocIdle /\ SearchInit /\ ConvIdle /\ IngestIdle /\ ClassIdle /\ RestIdle

SpecSearch == InitSearch /\ [][SearchNext]_vars

InitUnknownKeys == TokIdle /\ DocIdle /\ SearchInit /\ ConvIdle /\ IngestIdle /\ ClassIdle /\ RestIdle

SpecUnknownKeys == InitUnknownKeys /\ [][UnknownKeysNext]_vars

InitConv == TokIdle /\ DocIdle /\ SearchIdle /\ ConvIdle /\ IngestIdle /\ ClassIdle /\ RestIdle

SpecConvert == InitConv /\ [][ConvNext]_vars

\* the converter on batches whose entries can raise
InitBatch == TokIdle /\ DocIdle /\ SearchIdle /\ ConvIdle /\ IngestIdle /\ ClassIdle /\ RestIdle

SpecBatch == InitBatch /\ [][BatchNext]_vars

InitIngest == TokIdle /\ DocIdle /\ SearchIdle /\ ConvIdle /\ IngestIdle /\ ClassIdle /\ RestIdle

SpecIngest == InitIngest /\ [][IngestNext]_vars

\* ingestion runs, index builds and searcher openings in any order
InitPipeline == TokIdle /\ DocIdle /\ SearchIdle /\ ConvIdle /\ IngestIdle /\ ClassIdle /\ RestIdle

SpecPipeline == InitPipeline /\ [][PipelineNext]_vars

\* two runs at once on one database
InitRace ==
    /\ TokIdle /\ DocIdle /\ SearchIdle /\ ConvIdle /\ RaceTables /\ ClassIdle
    /\ BatchIdle /\ PipelineIdle /\ RaceInit

SpecRace == InitRace /\ [][RaceNext]_vars

InitClass == TokIdle /\ DocIdle /\ SearchIdle /\ ConvIdle /\ IngestIdle /\ ClassInit /\ RestIdle

SpecClass == InitClass /\ [][ClassNext]_vars

InitWide == TokIdle /\ DocIdle /\ SearchIdle /\ ConvIdle /\ IngestIdle /\ ClassInit /\ RestIdle

SpecWide == InitWide /\ [][WideNext]_vars

-----------------------------------------------------------------------------
(* Properties of tokenize_text, checked under SpecTok *)

\* the inputs C1 is about: None, empty, or shorter than 10 characters once trimmed
IsShortInput(t) == t = None \/ t = <<>> \/ Len(Strip(t)) < MinViableLen

\* the call went through the segmentation loop (a text that passes the guard is
\* not empty after normalization, so the loop body ran at least once)
WentThroughLoop == tpc = "returned" /\ iters > 0

\* C1: for every input that is None, empty, or shorter than 10 characters after
\* trimming, and for every chunk_size and overlap, the call returns the empty
\* list and raises nothing.
C1_ShortInputReturnsEmpty ==
    [][(tpc = "entry" /\ IsShortInput(text))
           => (tpc' = "returned" /\ chunks' = <<>> /\ ~traised')]_vars

\* C1 witness: a call has returned [] for an input of at least 10 characters
\* whose trimmed length is below 10.
C1_Witness ==
    /\ tpc = "returned"
    /\ chunks = <<>>
    /\ text # None
    /\ Len(text) >= MinViableLen
    /\ Len(Strip(text)) < MinViableLen
    /\ Len(Strip(text)) > 0

\* C2: every execution of the loop body moves the cursor forward by at least
\* one, for every configuration (overlap >= chunk_size included), so the body
\* runs at most len(normalized text) times.
C2_CursorAdvances ==
    [][TokLoopStep => (start' >= start + 1 /\ iters' <= Len(text))]_vars

\* C2 witness: a call with overlap >= chunk_size >= 1 has returned after
\* exactly len(text) iterations.
C2_Witness ==
    /\ WentThroughLoop
    /\ chunk_size >= 1
    /\ overlap >= chunk_size
    /\ iters = Len(text)

\* C3: with 0 <= overlap < chunk_size the chunks have strictly increasing
\* start_pos and 0-based, strictly increasing index in list order.
C3_StrictlyIncreasing ==
    (0 <= overlap /\ overlap < chunk_size) =>
        /\ \A i \in 1..Len(chunks) : chunks[i].index = i - 1
        /\ \A i, j \in 1..Len(chunks) :
               i < j => /\ chunks[i].start_pos < chunks[j].start_pos
                        /\ chunks[i].index < chunks[j].index

\* C3 witness: a text whose length is an exact multiple of chunk_size was cut
\* into several chunks with 1 <= overlap < chunk_size.
C3_Witness ==
    /\ WentThroughLoop
    /\ 1 <= overlap
    /\ overlap < chunk_size
    /\ Len(text) % chunk_size = 0
    /\ Len(chunks) >= 3

\* C4 (as claimed): every chunk satisfies 0 <= start_pos < end_pos <= len(text),
\* text being the normalized text, for chunk_size >= 1 and overlap >= 0.
C4_OffsetsWithinText ==
    (tpc \in {"loop", "returned"} /\ chunk_size >= 1) =>
        \A i \in 1..Len(chunks) :
            /\ 0 <= chunks[i].start_pos
            /\ chunks[i].start_pos < chunks[i].end_pos
            /\ chunks[i].end_pos <= Len(text)

\* the chunk slices joined in order, each without the part an earlier chunk
\* already covered
RECURSIVE JoinFrom(_, _, _, _)
JoinFrom(cs, t, i, covered) ==
    IF i > Len(cs) THEN <<>>
    ELSE Slice(t, Max2(cs[i].start_pos, covered), cs[i].end_pos)
             \o JoinFrom(cs, t, i + 1, Max2(covered, Min2(cs[i].end_pos, Len(t))))

JoinSlices(cs, t) == JoinFrom(cs, t, 1, 0)

LosesNoText ==
    /\ chunks # <<>>
    /\ chunks[1].start_pos = 0
    /\ \A i \in 2..Len(chunks) : chunks[i].start_pos <= chunks[i - 1].end_pos
    /\ \A p \in 0..(Len(text) - 1) :
           text[p + 1] # " " =>
               \E i \in 1..Len(chunks) : chunks[i].start_pos <= p /\ p < chunks[i].end_pos
    /\ JoinSlices(chunks, text) = text

\* C5 (as claimed): for chunk_size >= 1 and overlap >= 0 the returned chunks
\* lose no text: the first starts at 0, each later one starts at or before the
\* previous end_pos, every non-space position is covered, and the slices joined
\* without their overlaps give back the normalized text.
C5_LosesNoTextFromOne == (WentThroughLoop /\ chunk_size >= 1) => LosesNoText

\* C5 (amended): the same for chunk_size >= 2 and overlap >= 0.
C5_LosesNoTextFromTwo == (WentThroughLoop /\ chunk_size >= 2) => LosesNoText

\* C5 witness: a text holding a space was cut into at least three overlapping
\* chunks with chunk_size >= 2.
C5_Witness ==
    /\ WentThroughLoop
    /\ chunk_size >= 2
    /\ overlap >= 1
    /\ Len(chunks) >= 3
    /\ \E p \in 1..Len(text) : text[p] = " "

\* the chunk's candidate end start + chunk_size is not strictly before the
\* length of the normalized text
ReachesTextEnd(c) == c.start_pos + chunk_size >= Len(text)

\* C23 (as claimed): a chunk whose candidate end start + chunk_size is not
\* strictly before the text length is emitted without boundary snapping and is
\* the last chunk of the returned list.
C23_EndReachingChunkIsLast ==
    tpc = "returned" =>
        \A i \in 1..Len(chunks) :
            ReachesTextEnd(chunks[i]) =>
                /\ chunks[i].end_pos = chunks[i].start_pos + chunk_size
                /\ i = Len(chunks)

\* the offsets p with st < p at which sep occurs in t and ends at or before en
OccurrencesAfter(t, sep, st, en) ==
    {p \in (st + 1)..(en - Len(sep)) : \A j \in 1..Len(sep) : t[p + j] = sep[j]}

\* the end C24 describes for the chunk that starts at st with raw boundary en
SnappedEnd(t, st, en) ==
    LET sentence == OccurrencesAfter(t, <<".", " ">>, st, en)
        newline  == OccurrencesAfter(t, <<"\n">>, st, en)
        space    == OccurrencesAfter(t, <<" ">>, st, en)
    IN  IF sentence # {} THEN SetMax(sentence) + 2
        ELSE IF newline # {} THEN SetMax(newline) + 1
        ELSE IF space # {} THEN SetMax(space) + 1
        ELSE en

\* C24: when start + chunk_size is strictly before the text length, the end of
\* the chunk is just after the last occurrence, inside [start, start +
\* chunk_size) and strictly after start, of period+space; failing that, of
\* newline; failing that, of space; and start + chunk_size when none occurs.
\* The end shows in the emitted chunk and in the cursor of the next iteration.
C24_SnapsToBestSeparator ==
    [][(TokLoopStep /\ start + chunk_size < Len(text)) =>
           LET end == SnappedEnd(text, start, start + chunk_size)
           IN  /\ start' = (IF end - overlap > start + 1 THEN end - overlap ELSE start + 1)
               /\ Len(chunks') > Len(chunks) =>
                      /\ chunks'[Len(chunks')].start_pos = start
                      /\ chunks'[Len(chunks')].end_pos = end]_vars

\* C24 witness: one returned list holds a chunk cut after a period+space
\* although a plain space lies later in its window, a chunk cut after a plain
\* space because the only period+space of its window sits at its start, and
\* the text also has a window without separator that kept its raw boundary.
C24_Witness ==
    /\ tpc = "returned"
    /\ \E i \in 1..Len(chunks) :
           LET st == chunks[i].start_pos
               en == st + chunk_size
           IN  /\ en < Len(text)
               /\ OccurrencesAfter(text, <<".", " ">>, st, en) # {}
               /\ SetMax(OccurrencesAfter(text, <<" ">>, st, en)) + 1 > chunks[i].end_pos
    /\ \E i \in 1..Len(chunks) :
           LET st == chunks[i].start_pos
               en == st + chunk_size
           IN  /\ en < Len(text)
               /\ text[st + 1] = "." /\ text[st + 2] = " "
               /\ OccurrencesAfter(text, <<".", " ">>, st, en) = {}
               /\ chunks[i].end_pos < en
    /\ \E i \in 1..Len(chunks) :
           LET st == chunks[i].start_pos
               en == st + chunk_size
           IN  /\ en < Len(text)
               /\ chunks[i].end_pos = en
               /\ OccurrencesAfter(text, <<" ">>, st, en) = {}

\* C28: the first emitted chunk has overlap_start 0, every later one
\* max(0, start_pos - overlap); every chunk has overlap_end
\* min(len(text), end_pos + overlap); so 0 <= overlap_start <= start_pos and
\* overlap_end <= len(text), text being the normalized text.
C28_OverlapWindowClamped ==
    tpc \in {"loop", "returned"} =>
        \A i \in 1..Len(chunks) :
            LET c == chunks[i]
            IN  /\ i = 1 => c.overlap_start = 0
                /\ i > 1 => c.overlap_start =
                                (IF c.start_pos - overlap > 0 THEN c.start_pos - overlap ELSE 0)
                /\ c.overlap_end =
                       (IF c.end_pos + overlap < Len(text) THEN c.end_pos + overlap ELSE Len(text))
                /\ 0 <= c.overlap_start
                /\ c.overlap_start <= c.start_pos
                /\ c.overlap_end <= Len(text)

\* C28 witness: a call with overlap >= 1 has returned chunks among which a
\* later chunk starts closer to 0 than the overlap, a later chunk starts
\* further than the overlap, one chunk's end_pos + overlap stays inside the text
\* and one chunk's end_pos + overlap passes the end of the text.
C28_Witness ==
    /\ WentThroughLoop
    /\ overlap >= 1
    /\ \E i \in 2..Len(chunks) : chunks[i].start_pos < overlap
    /\ \E i \in 2..Len(chunks) : chunks[i].start_pos > overlap
    /\ \E i \in 1..Len(chunks) : chunks[i].end_pos + overlap < Len(text)
    /\ \E i \in 1..Len(chunks) : chunks[i].end_pos + overlap > Len(text)

-----------------------------------------------------------------------------
(* Properties of search, checked under SpecSearch *)

\* the identifier a hit carries: "chunk_id" (SQLite searcher) or "id" (JSON)
HitKey(h) == IF "chunk_id" \in DOMAIN h THEN h.chunk_id ELSE h.id

\* the candidate of this rank resolves to a chunk with its metadata
ResolvesAt(r) ==
    LET idx == ann.I[r]
    IN  /\ idx >= 0
        /\ idx < Len(store)
        /\ sarg.impl = "sqlite" => \E m \in MetadataRows : m.pdf_id = store[idx + 1].pdf_id

\* the chunk with its metadata a resolved candidate stands for
JoinedAt(r) == GetChunkWithMetadata(store, store[ann.I[r] + 1].chunk_id)[1]

\* a resolved candidate is discarded by an attribute filter
FilteredOutAt(r) == sarg.impl = "sqlite" /\ FiltersReject(sarg.filters, JoinedAt(r))

\* a resolved candidate is discarded by the section filter
SectionedOutAt(r) ==
    IF sarg.impl = "sqlite"
    THEN SectionRejectsSqlite(sarg.sections, store[ann.I[r] + 1])
    ELSE ~SectionAcceptsJson(sarg.sections, store[ann.I[r] + 1])

\* the candidate resolves and passes every filter
SurvivesAt(r) == ResolvesAt(r) /\ ~SectionedOutAt(r) /\ ~FilteredOutAt(r)

SurvivorRanks == {r \in 1..Len(ann.I) : SurvivesAt(r)}

\* the i-th smallest element of a set of numbers
NthSmallest(S, i) == CHOOSE x \in S : Cardinality({y \in S : y < x}) = i - 1

\* the ranks whose candidate is the chunk of this hit
RanksOfHit(h) ==
    {r \in 1..Len(ann.I) :
        /\ ann.I[r] >= 0
        /\ ann.I[r] < Len(store)
        /\ store[ann.I[r] + 1].chunk_id = HitKey(h)}

\* C6: for every index content, section filter and attribute-filter mapping a
\* search returns at most k results.
C6_AtMostK == spc = "returned" => Len(results) <= sarg.k

\* C6 witness: more than k candidates survive a search with k >= 2, which
\* returned k results.
C6_Witness ==
    /\ spc = "returned"
    /\ sarg.k >= 2
    /\ Cardinality(SurvivorRanks) > sarg.k
    /\ Len(results) = sarg.k

\* C7: the hits are in the order of their candidates in the index's ranked list
\* and each carries the distance reported for its candidate.
C7_RankOrderKept ==
    spc = "returned" =>
        /\ \A i \in 1..Len(results) :
               /\ RanksOfHit(results[i]) # {}
               /\ \A r \in RanksOfHit(results[i]) : results[i].score = ann.D[r]
        /\ \A i, j \in 1..Len(results) :
               i < j => \A ri \in RanksOfHit(results[i]), rj \in RanksOfHit(results[j]) : ri < rj

\* C7 witness: two hits were returned with a discarded candidate ranked before
\* the second of them and the index ranking the later chunk first.
C7_Witness ==
    /\ spc = "returned"
    /\ Len(results) = 2
    /\ HitKey(results[1])[3] > HitKey(results[2])[3]
    /\ \E r \in 1..Len(ann.I) :
           /\ ann.I[r] >= 0
           /\ ~SurvivesAt(r)
           /\ \A rj \in RanksOfHit(results[2]) : r < rj

\* C8: the result is exactly the first min(k, m) surviving candidates of the
\* ranked list, m being the number of surviving candidates, each with the
\* distance of its rank.
C8_FirstSurvivors ==
    spc = "returned" =>
        LET m == Cardinality(SurvivorRanks)
        IN  /\ Len(results) = Min2(sarg.k, m)
            /\ \A i \in 1..Len(results) :
                   LET r == NthSmallest(SurvivorRanks, i)
                   IN  /\ HitKey(results[i]) = store[ann.I[r] + 1].chunk_id
                       /\ results[i].score = ann.D[r]
                       /\ results[i].section = store[ann.I[r] + 1].section

\* C8 witness: three candidates at distances 1, 2, 3 (tenths), the second
\* failing an attribute filter, k = 2: the first and the third are returned.
C8_Witness ==
    /\ spc = "returned"
    /\ sarg.impl = "sqlite"
    /\ sarg.k = 2
    /\ Len(store) + stale = 3
    /\ SurvivesAt(1)
    /\ ResolvesAt(2) /\ ~SectionedOutAt(2) /\ FilteredOutAt(2)
    /\ SurvivesAt(3)
    /\ Len(results) = 2
    /\ results[1].score = 1
    /\ results[2].score = 3

\* C9: a search queries the index exactly once, for k * 10 candidates (SQLite
\* searcher) or k * 5 (JSON searcher), and when fewer than k candidates survive
\* it returns exactly the survivors.
C9_OneQueryNoRetry ==
    spc = "returned" =>
        /\ index_queries = 1
        /\ requested = sarg.k * (IF sarg.impl = "sqlite" THEN 10 ELSE 5)
        /\ Len(ann.I) = requested
        /\ Cardinality(SurvivorRanks) < sarg.k =>
               /\ Len(results) = Cardinality(SurvivorRanks)
               /\ \A i \in 1..Len(results) :
                      HitKey(results[i]) =
                          store[ann.I[NthSmallest(SurvivorRanks, i)] + 1].chunk_id

\* C9 witness: a search with k = 2 over three stored chunks of which one
\* survives has returned that one.
C9_Witness ==
    /\ spc = "returned"
    /\ sarg.k = 2
    /\ Len(store) = 3
    /\ Cardinality(SurvivorRanks) = 1
    /\ Len(results) = 1
    /\ index_queries = 1

\* C17: whenever a section filter is supplied to search (any supplied set, the
\* empty set included), every returned hit's section is a member of that set.
C17_HitsInSuppliedSections ==
    (spc = "returned" /\ sarg.sections # NoneSections) =>
        \A i \in 1..Len(results) : results[i].section \in sarg.sections

\* the hit satisfies the predicate the filter mapping f supplies under key
PredicateHolds(f, key, hit) ==
    CASE key \in SubstringKeys -> Contains(Lower(hit[key]), Lower(f[key]))
      [] key = "student_id"    -> hit.student_id = f[key]
      [] key = "year"          -> /\ hit.published_date # None
                                  /\ Slice(hit.published_date, 0, 4) = f[key]
      [] key = "author"        -> AuthorMatches(f[key], hit)
      [] OTHER                 -> TRUE

\* C18: every hit returned by FaissSemanticSearchSQLite.search satisfies every
\* supplied recognised predicate: substring on the text columns, equality on
\* student_id, year equal to the first four characters of published_date,
\* author matching one name of the delimited list.
C18_HitsSatisfyEveryPredicate ==
    (spc = "returned" /\ sarg.impl = "sqlite" /\ sarg.filters # NoneFilters) =>
        \A i \in 1..Len(results) :
            \A key \in DOMAIN sarg.filters :
                PredicateHolds(sarg.filters, key,
                               GetChunkWithMetadata(store, results[i].chunk_id)[1])

\* the candidate of this rank is a position of the known chunk list
InRangeAt(r) == ann.I[r] >= 0 /\ ann.I[r] < Len(store)

\* the ranks from r on whose candidate resolves, in rank order
RECURSIVE ResolvedRanksFrom(_)
ResolvedRanksFrom(r) ==
    IF r > Len(ann.I) THEN <<>>
    ELSE IF ResolvesAt(r) THEN <<r>> \o ResolvedRanksFrom(r + 1)
    ELSE ResolvedRanksFrom(r + 1)

\* what the loop of the search returns for the candidate list reduced to the
\* ranks keep, each candidate keeping its distance
ResultsOver(keep) ==
    LET q == [ k |-> sarg.k, sections |-> sarg.sections, filters |-> sarg.filters,
               I |-> [n \in 1..Len(keep) |-> ann.I[keep[n]]],
               D |-> [n \in 1..Len(keep) |-> ann.D[keep[n]]],
               chunk_ids |-> LoadChunkIds(store), store |-> store ]
    IN  IF sarg.impl = "sqlite"
        THEN SqliteLoop(q, 1, <<>>, 0).results
        ELSE JsonLoop(q, 1, <<>>, 0).results

\* C19: candidates that do not resolve (negative position, position beyond the
\* known chunk list, chunk without a joined metadata row) are skipped: the
\* search returns, and returns what it returns for the candidate list without
\* them, the same hits in the same order with the same scores.
C19_UnresolvedSkippedSilently ==
    spc = "returned" => results = ResultsOver(ResolvedRanksFrom(1))

\* C19 witness: a candidate beyond the known chunk list and a candidate without
\* a metadata row were both ranked before a returned hit.
C19_Witness ==
    /\ spc = "returned"
    /\ sarg.impl = "sqlite"
    /\ Len(results) >= 1
    /\ \E r1, r2, r3 \in 1..Len(ann.I) :
           /\ ann.I[r1] >= Len(store)
           /\ InRangeAt(r2) /\ ~ResolvesAt(r2)
           /\ r1 < r3 /\ r2 < r3
           /\ SurvivesAt(r3)
           /\ results[Len(results)].score = ann.D[r3]
    /\ \E r \in 1..Len(ann.I) : ann.I[r] < 0

\* the rank at which the loop of the search ends: that of the k-th surviving
\* candidate, the last rank when fewer than k survive
StopRank ==
    IF Cardinality(SurvivorRanks) >= sarg.k
    THEN NthSmallest(SurvivorRanks, sarg.k)
    ELSE Len(ann.I)

\* C20: search looks up exactly the in-range candidates ranked up to the k-th
\* surviving hit and none after it, so the metadata lookups of a call are at
\* most the rank of the k-th survivor and at most the over-fetch size.
C20_StopsAtKthSurvivor ==
    spc = "returned" =>
        /\ lookups = Cardinality({r \in 1..StopRank : InRangeAt(r)})
        /\ lookups <= StopRank
        /\ lookups <= requested

\* C20 witness: the k-th survivor of a search with k = 2 was found with
\* resolvable candidates still unexamined behind it.
C20_Witness ==
    /\ spc = "returned"
    /\ sarg.k = 2
    /\ Len(results) = 2
    /\ lookups = StopRank
    /\ \E r \in 1..Len(ann.I) : r > StopRank /\ ResolvesAt(r)

-----------------------------------------------------------------------------
(* Properties of search, checked under SpecUnknownKeys *)

\* the filter keys the tests of FaissSemanticSearchSQLite.search name
RecognisedKeys == SubstringKeys \cup {"student_id", "author", "year"}

\* the mapping without its unrecognised keys
WithoutUnknownKeys(f) == [key \in DOMAIN f \cap RecognisedKeys |-> f[key]]

\* what the search of the state returns when it is given the filters f instead
SameSearchWith(f) ==
    SqliteLoop([ k |-> sarg.k, sections |-> sarg.sections, filters |-> f,
                 I |-> ann.I, D |-> ann.D,
                 chunk_ids |-> LoadChunkIds(store), store |-> store ],
               1, <<>>, 0).results

\* C21: a search whose filter mapping holds unrecognised keys, with any values,
\* returns normally and returns the result sequence of the same search without
\* those keys.
C21_UnknownKeysAreNoOp ==
    /\ index_queries > 0 => spc = "returned"
    /\ spc = "returned" => results = SameSearchWith(WithoutUnknownKeys(sarg.filters))

\* C21 witness: a search whose mapping held a recognised key and three
\* unrecognised ones has returned a hit and discarded a candidate for the
\* recognised key.
C21_Witness ==
    /\ spc = "returned"
    /\ Cardinality(DOMAIN sarg.filters \ RecognisedKeys) = 3
    /\ DOMAIN sarg.filters \cap RecognisedKeys # {}
    /\ Len(results) >= 1
    /\ \E r \in 1..Len(ann.I) : ResolvesAt(r) /\ FilteredOutAt(r)

-----------------------------------------------------------------------------
(* Properties of insert_document, checked under SpecDocs *)

AtMostOneRowPerHash(docs) ==
    \A i, j \in 1..Len(docs) : docs[i].file_hash = docs[j].file_hash => i = j

HashPresent(docs, h) == \E i \in 1..Len(docs) : docs[i].file_hash = h

\* C10: after any sequence of insert_document calls the documents table holds at
\* most one row per file_hash, and a call whose fingerprint is already in the
\* table adds no row and returns the id of the row that holds it.
C10_OneRowPerFingerprint ==
    [][ /\ AtMostOneRowPerHash(documents')
        /\ \A d \in ThesisData :
               (InsertDocument(d) /\ HashPresent(documents, calculate_file_hash(d)))
                   => /\ documents' = documents
                      /\ ~draised'
                      /\ \E i \in 1..Len(documents) :
                             /\ documents[i].file_hash = calculate_file_hash(d)
                             /\ dret' = documents[i].id ]_vars

\* C10 witness: with two rows in the table, a call for the analysis stored
\* first has returned the id of that row.
C10_Witness ==
    /\ Len(documents) >= 2
    /\ documents[1].file_hash = calculate_file_hash(darg)
    /\ dret = documents[1].id
    /\ ~draised

-----------------------------------------------------------------------------
(* Properties of convert_json_to_sql, checked under SpecConvert *)

\* the number of rows of a table that belong to a document
RowsOf(table, document_id) ==
    Cardinality({i \in 1..Len(table) : table[i].document_id = document_id})

\* C11: converting an analysis whose fingerprint is already stored leaves the
\* sections, text_chunks and bibliographic_references tables with the same
\* number of rows for that document.
C11_ReconvertAddsNoRows ==
    [][ \A d \in ConvAnalyses :
            ( /\ ConvertAnalysis(d)
              /\ d.status = "success"
              /\ HashPresent(documents, calculate_file_hash(d)) )
                => LET id == FindByHash(documents, calculate_file_hash(d))
                   IN  /\ RowsOf(sections', id) = RowsOf(sections, id)
                       /\ RowsOf(text_chunks', id) = RowsOf(text_chunks, id)
                       /\ RowsOf(bibliographic_references', id)
                              = RowsOf(bibliographic_references, id) ]_vars

-----------------------------------------------------------------------------
(* Properties of convert_json_to_sql, checked under SpecBatch *)

\* the rows of the database that a commit has covered
CommittedStore ==
    [ documents                |-> documents,
      sections                 |-> Committed(sections, uncommitted.sections),
      text_chunks              |-> Committed(text_chunks, uncommitted.text_chunks),
      bibliographic_references |-> Committed(bibliographic_references,
                                             uncommitted.bibliographic_references) ]

\* the rows of the committed part of a table after a step that were not in it
\* before the step
NewlyCommitted(before, after) == { after[i] : i \in (Len(before) + 1)..Len(after) }

\* C30: the conversion of one document is all-or-nothing: every entry of the
\* batch is counted once, as successful or as failed; an entry counted as
\* failed leaves the committed documents, sections, text_chunks and
\* bibliographic_references rows as they were; and the section, chunk and
\* reference rows that an entry commits belong to the document of that entry.
C30_ConversionIsAllOrNothing ==
    [][ /\ successful_conversions' + failed_conversions'
               = successful_conversions + failed_conversions + 1
        /\ \/ /\ successful_conversions' = successful_conversions + 1
              /\ failed_conversions' = failed_conversions
           \/ /\ failed_conversions' = failed_conversions + 1
              /\ successful_conversions' = successful_conversions
        /\ failed_conversions' = failed_conversions + 1
               => CommittedStore' = CommittedStore
        /\ \A row \in NewlyCommitted(CommittedStore.sections, CommittedStore'.sections)
                      \cup NewlyCommitted(CommittedStore.text_chunks,
                                          CommittedStore'.text_chunks)
                      \cup NewlyCommitted(CommittedStore.bibliographic_references,
                                          CommittedStore'.bibliographic_references) :
               row.document_id = dret' ]_vars

-----------------------------------------------------------------------------
(* Properties of the TEI ingestion, checked under SpecIngest *)

\* the run repeats an earlier run: same source_file, same TEI content
IsRerun(f, tei) == \E h \in ingested : h.source_file = f /\ h.tei = tei

\* C12: a run of the TEI ingestion on a TEI file and source_file that were
\* ingested before inserts no metadata row, reuses the pdf_id, generates the
\* same chunk keys in the same order and inserts no chunk: both tables are
\* unchanged.
C12_RerunIsIdempotent ==
    [][ \A f \in SourceFiles, tei \in TeiContents :
            (RunIngestion(f, tei) /\ IsRerun(f, tei))
                => /\ tei_metadata' = tei_metadata
                   /\ tei_chunks' = tei_chunks
                   /\ pdf_db_id' = FindPdfId(tei_metadata, f)
                   /\ pdf_db_id' # NoId
                   /\ inserted_chunks' = 0
                   /\ \A h \in ingested :
                          (h.source_file = f /\ h.tei = tei) => generated_keys' = h.keys ]_vars

\* C12 witness: the second run of the same TEI content, which has two texts
\* with content, generated its two keys again and inserted nothing.
C12_Witness ==
    /\ Len(tei_chunks) = 2
    /\ Len(generated_keys) = 2
    /\ inserted_chunks = 0
    /\ Len(tei_metadata) = 1
    /\ Cardinality(ingested) = 1

-----------------------------------------------------------------------------
(* Properties of the index build and the searcher, checked under SpecPipeline *)

\* the rows of the chunks table with a chunk id
RowsWithId(chunk_id) == { i \in 1..Len(tei_chunks) : tei_chunks[i].chunk_id = chunk_id }

\* C22: every position the opened searcher resolves maps to the chunk whose
\* text was embedded at that position, the chunks table still holds that text
\* for the chunk, and no position was ever associated, by a build or by an
\* opening, with two chunk ids.
C22_PositionsKeepTheirChunk ==
    /\ searcher.opened =>
           \A idx \in Resolved(searcher.index, searcher.chunk_ids) :
               /\ searcher.chunk_ids[idx + 1] = searcher.index[idx + 1].chunk_id
               /\ \E i \in RowsWithId(searcher.chunk_ids[idx + 1]) :
                      tei_chunks[i].text = searcher.index[idx + 1].text
    /\ \A a, b \in associated : a[1] = b[1] => a[2] = b[2]

\* a searcher opened on an index older than the table: a chunk was ingested
\* after the build, a row too short to index precedes an indexed one, and a
\* later build has put more vectors in faiss.index than the searcher read
C22_Witness ==
    /\ searcher.opened
    /\ Len(searcher.index) >= 1
    /\ Len(searcher.chunk_ids) > Len(searcher.index)
    /\ Len(faiss_index.vectors) > Len(searcher.index)
    /\ \E i, j \in 1..Len(tei_chunks) :
           /\ i < j
           /\ Len(tei_chunks[i].text) <= MinIndexedLen
           /\ tei_chunks[j].chunk_id = searcher.chunk_ids[1]

-----------------------------------------------------------------------------
(* Properties of two runs at once, checked under SpecRace *)

\* no two rows of a table hold the same value in a column
NoTwoShare(table, column) ==
    \A i, j \in 1..Len(table) : table[i][column] = table[j][column] => i = j

\* C27: under every interleaving of the statements of two runs of the TEI
\* ingestion, or of two runs of the converter, on the same or on different
\* documents, the committed tables never hold two metadata rows with one
\* source_file or one pdf_id, two documents rows with one fingerprint, one
\* filename or one id, or two chunk rows with one chunk identifier.
C27_NoDuplicateIdentifiers ==
    /\ NoTwoShare(tei_metadata, "source_file")
    /\ NoTwoShare(tei_metadata, "pdf_id")
    /\ NoTwoShare(tei_chunks, "chunk_id")
    /\ NoTwoShare(documents, "file_hash")
    /\ NoTwoShare(documents, "filename")
    /\ NoTwoShare(documents, "id")
    /\ NoTwoShare(text_chunks, "id")

\* the check-then-insert race was run and lost: a run whose SELECT found no
\* row (no metadata row for its source_file, or no chunk for its key) was
\* refused its INSERT because the other run had committed the row in between,
\* and the other run finished
C27_Witness ==
    \E r \in Runs :
        /\ runs[r].kind = "tei"
        /\ runs[r].pc = "IntegrityError"
        /\ runs[3 - r].pc = "done"
        /\ \/ /\ runs[r].pdf_db_id = NoId
              /\ FindPdfId(tei_metadata, runs[r].source_file) # NoId
           \/ /\ runs[r].pdf_db_id # NoId
              /\ ChunkExists(tei_chunks, ChunkKey(runs[r].pdf_db_id, runs[r].chunk_id))

-----------------------------------------------------------------------------
(* Properties of categorize_section, checked under SpecClass *)

\* the last call of the log
LastCall == class_log[Len(class_log)]

\* every comparison the loops can make for a call: a keyword found in the
\* cleaned title scores its similarity, a keyword found in the content 0.7
Comparisons(section_title, content) ==
    LET t == CleanTitle(section_title)
        c == ContentStart(content)
    IN  UNION { UNION { (IF Contains(t, Taxonomy[ci].keywords[ki])
                         THEN {[ category |-> Taxonomy[ci].category,
                                 score    |-> similarity(t, Taxonomy[ci].keywords[ki]) ]}
                         ELSE {})
                        \cup
                        (IF Contains(c, Taxonomy[ci].keywords[ki])
                         THEN {[category |-> Taxonomy[ci].category, score |-> [num |-> 7, den |-> 10]]}
                         ELSE {})
                        : ki \in 1..Len(Taxonomy[ci].keywords) }
                : ci \in 1..Len(Taxonomy) }

\* the comparisons of a set that no other comparison outscores
BestOf(cmp) == {x \in cmp : \A y \in cmp : y.score.num * x.score.den <= x.score.num * y.score.den}

\* the score is strictly greater than 0.6
AboveThreshold(x) == x.score.num * 10 > 6 * x.score.den

\* C13: categorize_section returns a best-scoring category if and only if the
\* best score over all comparisons is strictly greater than 0.6, and 'otros'
\* in every other case.
C13_BestAboveThresholdOrOtros ==
    class_log # <<>> =>
        \A cmp \in {Comparisons(LastCall.section_title, LastCall.content)} :
            IF \E x \in cmp : AboveThreshold(x)
            THEN LastCall.ret \in {x.category : x \in BestOf(cmp)}
            ELSE LastCall.ret = "otros"

\* C13 witness: "XYZ123" with an empty body (no comparison) and a heading whose
\* best score is exactly 0.6 were given 'otros', then a heading was given the
\* category of its best score above 0.6.
C13_Witness ==
    /\ Len(class_log) = 3
    /\ class_log[1].section_title = <<"X", "Y", "Z", "1", "2", "3">>
    /\ class_log[1].content = <<>>
    /\ class_log[1].ret = "otros"
    /\ class_log[2].content = <<>>
    /\ \E x \in Comparisons(class_log[2].section_title, <<>>) : x.score.num * 10 = 6 * x.score.den
    /\ class_log[2].ret = "otros"
    /\ class_log[3].ret # "otros"
    /\ \E x \in Comparisons(class_log[3].section_title, class_log[3].content) :
           AboveThreshold(x) /\ x.category = class_log[3].ret

\* C14: categorize("Related Work", "") returns the category estado_del_arte.
C14_RelatedWorkIsEstadoDelArte ==
    \A i \in 1..Len(class_log) :
        ( /\ class_log[i].section_title = <<"R", "e", "l", "a", "t", "e", "d", " ", "W", "o", "r", "k">>
          /\ class_log[i].content = <<>> )
            => class_log[i].ret = "estado_del_arte"

\* the categories, in taxonomy order, that list the keyword
ListedIn(keyword) ==
    {ci \in 1..Len(Taxonomy) :
        \E ki \in 1..Len(Taxonomy[ci].keywords) : Taxonomy[ci].keywords[ki] = keyword}

\* C15: a heading that, lowercased and stripped of punctuation, is identical to
\* a taxonomy keyword scores 1.0 and is given the first category, in taxonomy
\* order, that lists the keyword; "Metodología" is given metodologia.
C15_ExactKeywordFirstCategory ==
    /\ \A i \in 1..Len(class_log) :
           ListedIn(CleanTitle(class_log[i].section_title)) # {}
               => class_log[i].ret
                      = Taxonomy[SetMin(ListedIn(CleanTitle(class_log[i].section_title)))].category
    /\ (class_log # <<>> /\ ListedIn(CleanTitle(LastCall.section_title)) # {})
           => best_score.num = best_score.den
    /\ \A i \in 1..Len(class_log) :
           class_log[i].section_title
               = <<"M", "e", "t", "o", "d", "o", "l", "o", "g", "í", "a">>
               => class_log[i].ret = "metodologia"

\* C15 witness: "Abstract", listed by two categories, was given the first of
\* them, then "Metodología" with an empty body scored 1.0 and was given
\* metodologia.
C15_Witness ==
    /\ Len(class_log) = 2
    /\ class_log[1].section_title = <<"A", "b", "s", "t", "r", "a", "c", "t">>
    /\ Cardinality(ListedIn(CleanTitle(class_log[1].section_title))) = 2
    /\ class_log[1].ret = "resumen"
    /\ class_log[2].section_title = <<"M", "e", "t", "o", "d", "o", "l", "o", "g", "í", "a">>
    /\ class_log[2].content = <<>>
    /\ class_log[2].ret = "metodologia"
    /\ best_score = [num |-> 22, den |-> 22]

-----------------------------------------------------------------------------
(* Properties of categorize_section, checked under SpecWide *)

\* the keyword occurs in the lowercased body and ends at or before character
\* 200 of it
InBodyWindow(content, keyword) ==
    \E p \in 0..(Min2(Len(content), 200) - Len(keyword)) :
        \A j \in 1..Len(keyword) : LowerChar(content[p + j]) = keyword[j]

\* the first 200 characters of the body, lowercased
BodyWindow(content) == [i \in 1..Min2(Len(content), 200) |-> LowerChar(content[i])]

\* the scores of one (category, keyword) pair for a normalized heading t and
\* a body window w: the similarity ratio when the keyword is in the heading;
\* 0.7 when it is in the window, in every case (also) or only when it is not
\* in the heading
PairScores(ci, keyword, t, w, also) ==
    (IF Contains(t, keyword)
     THEN {[ci |-> ci, category |-> Taxonomy[ci].category, score |-> similarity(t, keyword)]}
     ELSE {})
    \cup
    (IF Contains(w, keyword) /\ (also \/ ~Contains(t, keyword))
     THEN {[ci |-> ci, category |-> Taxonomy[ci].category, score |-> [num |-> 7, den |-> 10]]}
     ELSE {})

ScoredPairs(section_title, content, also) ==
    UNION { UNION { UNION { PairScores(ci, Taxonomy[ci].keywords[ki], t, w, also)
                            : ki \in 1..Len(Taxonomy[ci].keywords) }
                    : ci \in 1..Len(Taxonomy) }
            : t \in {CleanTitle(section_title)}, w \in {BodyWindow(content)} }

\* the locals best_match and best_score at the return are a highest-scoring
\* pair of the set, and None and 0 when the set is empty
KeptBestOf(cmp) ==
    IF cmp = {}
    THEN None = best_match /\ best_score.num = 0
    ELSE \E x \in BestOf(cmp) :
             /\ best_match = x.category
             /\ best_score.num * x.score.den = x.score.num * best_score.den

\* C25 (as claimed): a keyword in the normalized heading is scored by its
\* similarity ratio to the heading; 0.7 goes only to a keyword that is not in
\* the heading and appears within the first 200 characters of the lowercased
\* body; a keyword that occurs in the body only later scores nothing.
C25_BodyScoreOnlyOutsideHeading ==
    class_log # <<>> =>
        \A cmp \in {ScoredPairs(LastCall.section_title, LastCall.content, FALSE)} :
            KeptBestOf(cmp)

\* C25 (amended): a keyword in the normalized heading is scored by its
\* similarity ratio to the heading; 0.7 goes to every keyword that appears
\* within the first 200 characters of the lowercased body, whether or not it is
\* in the heading too; a keyword that occurs in the body only later scores
\* nothing.
C25_BodyScoreAlsoInsideHeading ==
    class_log # <<>> =>
        \A cmp \in {ScoredPairs(LastCall.section_title, LastCall.content, TRUE)} :
            KeptBestOf(cmp)

\* C25 witness: the call had a keyword both in its heading, with a similarity
\* below 0.7, and in the first 200 characters of its body, and another keyword
\* in its body only after character 200; it kept the score 0.7.
C25_Witness ==
    /\ class_log # <<>>
    /\ \E x \in ScoredPairs(LastCall.section_title, <<>>, TRUE) :
           /\ x.score.num * 10 < 7 * x.score.den
           /\ \E ki \in 1..Len(Taxonomy[x.ci].keywords) :
                  /\ Contains(CleanTitle(LastCall.section_title), Taxonomy[x.ci].keywords[ki])
                  /\ InBodyWindow(LastCall.content, Taxonomy[x.ci].keywords[ki])
    /\ \E ci \in 1..Len(Taxonomy) : \E ki \in 1..Len(Taxonomy[ci].keywords) :
           /\ Contains(Lower(LastCall.content), Taxonomy[ci].keywords[ki])
           /\ ~InBodyWindow(LastCall.content, Taxonomy[ci].keywords[ki])
    /\ best_score = [num |-> 7, den |-> 10]
    /\ LastCall.ret = best_match

\* the first category, in taxonomy order, that reaches the highest score
FirstBest(cmp) == Taxonomy[SetMin({x.ci : x \in BestOf(cmp)})].category

\* C26: one (category, score) pair is kept, and among the comparisons that
\* reach the highest score the category met first in taxonomy order is the one
\* kept and, above the threshold, the one returned.
C26_FirstSeenWinsTies ==
    class_log # <<>> =>
        \A cmp \in {ScoredPairs(LastCall.section_title, LastCall.content, TRUE)} :
            cmp # {} =>
                /\ best_match = FirstBest(cmp)
                /\ LastCall.ret = (IF \E x \in cmp : AboveThreshold(x)
                                   THEN FirstBest(cmp) ELSE "otros")

\* C26 witness: a keyword of the heading and a keyword of the body, of two
\* different categories, both reached the highest score 0.7, and the category
\* that comes first in the taxonomy was returned.
C26_Witness ==
    /\ class_log # <<>>
    /\ best_score = [num |-> 7, den |-> 10]
    /\ \E x, y \in BestOf(ScoredPairs(LastCall.section_title, LastCall.content, TRUE)) :
           /\ x.ci < y.ci
           /\ x.score # y.score
           /\ LastCall.ret = x.category
           /\ Contains(CleanTitle(LastCall.section_title), <<"r", "e", "s", "u", "l", "t", "s">>)

\* the categories of the taxonomy
Categories == {Taxonomy[ci].category : ci \in 1..Len(Taxonomy)}

\* the keywords section_mappings lists under a category
KeywordsOf(category) ==
    UNION { IF section_mappings[ci].category = category
            THEN {section_mappings[ci].keywords[ki] : ki \in 1..Len(section_mappings[ci].keywords)}
            ELSE {}
            : ci \in 1..Len(section_mappings) }

\* C29: no call returns 'abstract' or keeps it as best match: every result is
\* a category other than 'abstract', or 'otros'; every keyword of 'abstract'
\* is also a keyword of 'resumen', which is compared earlier.
C29_NeverAbstract ==
    /\ \A i \in 1..Len(class_log) :
           class_log[i].ret \in (Categories \ {"abstract"}) \cup {"otros"}
    /\ best_match # "abstract"
    /\ KeywordsOf("abstract") \subseteq KeywordsOf("resumen")
    /\ \A ci, cj \in 1..Len(section_mappings) :
           (section_mappings[ci].category = "resumen" /\ section_mappings[cj].category = "abstract")
               => ci < cj

\* C29 witness: the heading "Abstract" with an empty body, identical to a
\* keyword of 'abstract', was given 'resumen' with the score 1.0.
C29_Witness ==
    /\ class_log # <<>>
    /\ LastCall.section_title = <<"A", "b", "s", "t", "r", "a", "c", "t">>
    /\ LastCall.content = <<>>
    /\ CleanTitle(LastCall.section_title) \in KeywordsOf("abstract")
    /\ LastCall.ret = "resumen"
    /\ best_score.num = best_score.den

====
